---------------------------- MODULE Spec2Model ----------------------------
(***************************************************************************)
(* SLIP-0039 (Shamir's secret sharing for mnemonic codes), TypeScript      *)
(* implementation: Slip39.fromArray ("generate"), Slip39.recoverSecret     *)
(* ("recover"), Slip39.validateMnemonic and the helpers they call.         *)
(*                                                                         *)
(* Representation.  A byte array is a sequence of naturals in 0..255.  A   *)
(* JavaScript string is the sequence of its char codes.  A BigInt is the   *)
(* sequence of its binary digits, least significant first, without leading *)
(* zeros (0 is <<>>), so that values of 128 bits and more stay exact.  A   *)
(* mnemonic is the sequence of its words; a word of the word list is its   *)
(* index 0..1023 and NoWord stands for any string that is no word of the   *)
(* list.  A JavaScript Map is the sequence of its <<key, value>> entries   *)
(* in insertion order.  A function that may throw returns a record         *)
(* [ok, val, err].                                                         *)
(*                                                                         *)
(* The platform primitives PBKDF2-HMAC-SHA-256 and HMAC-SHA-256 are        *)
(* modelled by PRF, one fixed deterministic function of all their inputs.  *)
(* The random number generator is a stream fixed by a seed chosen when     *)
(* generate is called.                                                     *)
(***************************************************************************)
EXTENDS Integers, Sequences, FiniteSets, TLC

(***************************************************************************)
(* Constants of constants.ts.                                              *)
(***************************************************************************)
RADIX_BITS == 10

ID_BITS_LENGTH == 15

ITERATION_EXP_BITS_LENGTH == 4

EXTENDABLE_BACKUP_FLAG_BITS_LENGTH == 1

CHECKSUM_WORDS_LENGTH == 3

\* The identifier, the flag and the exponent are 15 + 1 + 4 = 20 bits, the
\* first two words of a mnemonic: 2 + 2 + 3 = METADATA_WORDS_LENGTH, and
\* a 16-byte share has 2 + 2 + 13 + 3 = MNEMONICS_WORDS_LENGTH words.
ITERATION_EXP_WORDS_LENGTH ==
  (ID_BITS_LENGTH + EXTENDABLE_BACKUP_FLAG_BITS_LENGTH
     + ITERATION_EXP_BITS_LENGTH + RADIX_BITS - 1) \div RADIX_BITS

METADATA_WORDS_LENGTH == 7

MNEMONICS_WORDS_LENGTH == 20

MIN_ENTROPY_BITS == 128

MAX_SHARE_COUNT == 16

MAX_ITERATION_EXP == 16

ITERATION_COUNT == 10000

ROUND_COUNT == 4

DIGEST_LENGTH == 4

DIGEST_INDEX == 254

SECRET_INDEX == 255

CUSTOMIZATION_STRING_NON_EXTENDABLE == <<115, 104, 97, 109, 105, 114>>

CUSTOMIZATION_STRING_EXTENDABLE ==
  <<115, 104, 97, 109, 105, 114, 95, 101, 120, 116, 101, 110, 100, 97, 98, 108, 101>>

\* EXP_TABLE[i + 1] = 3^i in GF(256) modulo x^8 + x^4 + x^3 + x + 1, i in 0..254.
EXP_TABLE ==
  <<
       1,   3,   5,  15,  17,  51,  85, 255,  26,  46, 114, 150, 161, 248,  19,  53,
      95, 225,  56,  72, 216, 115, 149, 164, 247,   2,   6,  10,  30,  34, 102, 170,
     229,  52,  92, 228,  55,  89, 235,  38, 106, 190, 217, 112, 144, 171, 230,  49,
      83, 245,   4,  12,  20,  60,  68, 204,  79, 209, 104, 184, 211, 110, 178, 205,
      76, 212, 103, 169, 224,  59,  77, 215,  98, 166, 241,   8,  24,  40, 120, 136,
     131, 158, 185, 208, 107, 189, 220, 127, 129, 152, 179, 206,  73, 219, 118, 154,
     181, 196,  87, 249,  16,  48,  80, 240,  11,  29,  39, 105, 187, 214,  97, 163,
     254,  25,  43, 125, 135, 146, 173, 236,  47, 113, 147, 174, 233,  32,  96, 160,
     251,  22,  58,  78, 210, 109, 183, 194,  93, 231,  50,  86, 250,  21,  63,  65,
     195,  94, 226,  61,  71, 201,  64, 192,  91, 237,  44, 116, 156, 191, 218, 117,
     159, 186, 213, 100, 172, 239,  42, 126, 130, 157, 188, 223, 122, 142, 137, 128,
     155, 182, 193,  88, 232,  35, 101, 175, 234,  37, 111, 177, 200,  67, 197,  84,
     252,  31,  33,  99, 165, 244,   7,   9,  27,  45, 119, 153, 176, 203,  70, 202,
      69, 207,  74, 222, 121, 139, 134, 145, 168, 227,  62,  66, 198,  81, 243,  14,
      18,  54,  90, 238,  41, 123, 141, 140, 143, 138, 133, 148, 167, 242,  13,  23,
      57,  75, 221, 124, 132, 151, 162, 253,  28,  36, 108, 180, 199,  82, 246
  >>

\* LOG_TABLE[v + 1] for v in 0..255: the entry of 0 is 0 (interpolate adds
\* LOG_TABLE[k ^ k] to every sum), and 3^LOG_TABLE[v + 1] = v for v in 1..255.
LOG_TABLE ==
  <<   0,
       0,  25,   1,  50,   2,  26, 198,  75, 199,  27, 104,  51, 238, 223,   3, 100,
       4, 224,  14,  52, 141, 129, 239,  76, 113,   8, 200, 248, 105,  28, 193, 125,
     194,  29, 181, 249, 185,  39, 106,  77, 228, 166, 114, 154, 201,   9, 120, 101,
      47, 138,   5,  33,  15, 225,  36,  18, 240, 130,  69,  53, 147, 218, 142, 150,
     143, 219, 189,  54, 208, 206, 148,  19,  92, 210, 241,  64,  70, 131,  56, 102,
     221, 253,  48, 191,   6, 139,  98, 179,  37, 226, 152,  34, 136, 145,  16, 126,
     110,  72, 195, 163, 182,  30,  66,  58, 107,  40,  84, 250, 133,  61, 186,  43,
     121,  10,  21, 155, 159,  94, 202,  78, 212, 172, 229, 243, 115, 167,  87, 175,
      88, 168,  80, 244, 234, 214, 116,  79, 174, 233, 213, 231, 230, 173, 232,  44,
     215, 117, 122, 235,  22,  11, 245,  89, 203,  95, 176, 156, 169,  81, 160, 127,
      12, 246, 111,  23, 196,  73, 236, 216,  67,  31,  45, 164, 118, 123, 183, 204,
     187,  62,  90, 251,  96, 177, 134,  59,  82, 161, 108, 170,  85,  41, 157, 151,
     178, 135, 144,  97, 190, 220, 252, 188, 149, 207, 205,  55,  63,  91, 209,  83,
      57, 132,  60,  65, 162, 109,  71,  20,  42, 158,  93,  86, 242, 211, 171,  68,
      17, 146, 217,  35,  32,  46, 137, 180, 124, 184,  38, 119, 153, 227, 165, 103,
      74, 237, 222, 197,  49, 254,  24,  13,  99, 140, 128, 192, 247, 112,   7
  >>

\* A word that is not in WORD_LIST (also WORD_LIST[i] for i outside 0..1023).
NoWord == -1

(***************************************************************************)
(* Results of functions that may throw.                                    *)
(***************************************************************************)
Ok(v) == [ok |-> TRUE, val |-> v, err |-> ""]

Err(e) == [ok |-> FALSE, val |-> <<>>, err |-> e]

(***************************************************************************)
(* Arithmetic on JavaScript numbers (all values here are in 0..2^31-1).    *)
(***************************************************************************)
RECURSIVE Pow2(_)
Pow2(n) == IF n = 0 THEN 1 ELSE 2 * Pow2(n - 1)

RECURSIVE XorBits(_, _)
XorBits(a, b) ==
  IF a = 0 THEN b
  ELSE IF b = 0 THEN a
  ELSE ((a + b) % 2) + 2 * XorBits(a \div 2, b \div 2)

Xor4 == [a \in 0..15 |-> [b \in 0..15 |-> XorBits(a, b)]]

\* a ^ b
RECURSIVE BitXor(_, _)
BitXor(a, b) ==
  IF a = 0 THEN b
  ELSE IF b = 0 THEN a
  ELSE Xor4[a % 16][b % 16] + 16 * BitXor(a \div 16, b \div 16)

\* a >> n and a << n
ShiftRight(a, n) == a \div Pow2(n)

ShiftLeft(a, n) == a * Pow2(n)

\* a & (2^n - 1)
LowBits(a, n) == a % Pow2(n)

(***************************************************************************)
(* BigInt values.                                                          *)
(***************************************************************************)
RECURSIVE Normalize(_)
Normalize(v) ==
  IF v = <<>> THEN v
  ELSE IF v[Len(v)] = 1 THEN v
  ELSE Normalize(SubSeq(v, 1, Len(v) - 1))

BigBit(v, k) == IF k + 1 <= Len(v) THEN v[k + 1] ELSE 0

\* BigInt(n) for a number n >= 0
RECURSIVE BigIntOf(_)
BigIntOf(n) == IF n = 0 THEN <<>> ELSE <<n % 2>> \o BigIntOf(n \div 2)

\* Number(v) for a BigInt v < 2^31
RECURSIVE NumberOf(_)
NumberOf(v) == IF v = <<>> THEN 0 ELSE v[1] + 2 * NumberOf(Tail(v))

\* Number((v >> from) & (2^bits - 1))
RECURSIVE BigSlice(_, _, _)
BigSlice(v, from, bits) ==
  IF bits = 0 THEN 0
  ELSE BigBit(v, from) + 2 * BigSlice(v, from + 1, bits - 1)

Reverse(s) == [i \in 1..Len(s) |-> s[Len(s) + 1 - i]]

(***************************************************************************)
(* utils.ts                                                                *)
(***************************************************************************)
\* generateArray(arr, n, v): v is the function i |-> v(i); n = 0 takes arr.length.
generateArray(arr, n, v) ==
  LET m == IF n # 0 THEN n ELSE Len(arr)
  IN  arr \o [i \in 1..m |-> v[i - 1]]

encodeHexString(s) == [i \in 1..Len(s) |-> s[i]]

bitsToBytes(n) == (n + 7) \div 8

\* one word more than the whole words
bitsToWordsAndOne(n) == n \div RADIX_BITS + 1

bitsToWords(n) == (n + RADIX_BITS - 1) \div RADIX_BITS

listsAreEqual(a, b) ==
  /\ Len(a) = Len(b)
  /\ \A i \in 1..Len(a) : b[i] = a[i]

\* result += bytes[length - i - 1] << 8 i
decodeBigInt(bytes) ==
  Normalize([k \in 1..(8 * Len(bytes)) |->
               (bytes[Len(bytes) - ((k - 1) \div 8)] \div Pow2((k - 1) % 8)) % 2])

\* The bytes of number, most significant first, without leading zero bytes.
BigBytes(number) ==
  LET n == (Len(number) + 7) \div 8
  IN  [i \in 1..n |-> BigSlice(number, 8 * (n - i), 8)]

encodeBigInt(number, paddedLength) ==
  LET result == BigBytes(number)
      padded == IF Len(result) < paddedLength
                THEN [i \in 1..(paddedLength - Len(result)) |-> 0] \o result
                ELSE result
  IN  IF paddedLength # 0 /\ Len(padded) > paddedLength
      THEN Err("Error in encoding BigInt value")
      ELSE Ok(padded)

(***************************************************************************)
(* The platform primitives (uncrypto): one deterministic function of the   *)
(* key, the message, a number and the length of the output in bytes.       *)
(***************************************************************************)
RECURSIVE Mix(_, _)
Mix(h, s) ==
  IF s = <<>> \/ h < 0 THEN h
  ELSE Mix((h * 31 + Head(s) + 1) % 65521, Tail(s))

PRF(key, msg, n, len) ==
  LET h == Mix(Mix((Mix(7, key) * 3 + 1) % 65521, msg), <<n % 251>>)
  IN  [i \in 1..len |-> ((h + 131 * i) * (2 * i + 1)) % 256]

\* Byte number pos (from 0) of the random stream of a seed.
Stream(seed, pos) == (seed * 37 + pos * pos * 7 + pos * 13 + seed * pos * 5) % 256

\* randomBytes(length), read at position pos of the stream
randomBytes(seed, pos, length) == [i \in 1..length |-> Stream(seed, pos + i - 1)]

(***************************************************************************)
(* slip39_helper.ts: Feistel cipher                                        *)
(***************************************************************************)
roundFunction(round, passphrase, exp, salt, secret) ==
  LET saltedSecret == salt \o secret
      roundedPhrase == <<round>> \o passphrase
      iterations == ShiftLeft(ITERATION_COUNT, exp) \div ROUND_COUNT
  IN  PRF(roundedPhrase, saltedSecret, iterations, Len(secret))

xor(a, b) ==
  IF Len(a) # Len(b)
  THEN Err("Invalid padding in mnemonic or insufficient length of mnemonics")
  ELSE Ok(generateArray(<<>>, Len(a), [i \in 0..(Len(a) - 1) |-> BitXor(a[i + 1], b[i + 1])]))

getSalt(identifier, extendableBackupFlag) ==
  IF extendableBackupFlag # 0
  THEN <<>>
  ELSE encodeHexString(CUSTOMIZATION_STRING_NON_EXTENDABLE) \o identifier

(***************************************************************************)
(* slip39_helper.ts: GF(256) interpolation                                 *)
(***************************************************************************)
MapKeys(m) == [i \in 1..Len(m) |-> m[i][1]]

MapValues(m) == [i \in 1..Len(m) |-> m[i][2]]

MapHas(m, k) == \E i \in 1..Len(m) : m[i][1] = k

MapGet(m, k) == m[CHOOSE i \in 1..Len(m) : m[i][1] = k][2]

\* a set that leaves the value of an existing key as it is
MapSetOnce(m, k, v) == IF MapHas(m, k) THEN m ELSE Append(m, <<k, v>>)

\* m.set(k, v): an existing key keeps its place
MapSet(m, k, v) ==
  IF MapHas(m, k)
  THEN [m EXCEPT ![CHOOSE i \in 1..Len(m) : m[i][1] = k] = <<k, v>>]
  ELSE Append(m, <<k, v>>)

RECURSIVE SumSeq(_)
SumSeq(s) == IF s = <<>> THEN 0 ELSE Head(s) + SumSeq(Tail(s))

\* a % m of JavaScript: the sign of the result is the sign of a
JsRem(a, m) == IF a >= 0 THEN a % m ELSE -((-a) % m)

\* logBasisEval with the negative exponents taken modulo 254.
logBasisEvalShort(basis) == IF basis < 0 THEN 254 + basis ELSE basis

\* a correction of the negative remainders that adds 256
logBasisEvalByteWide(basis) == IF basis < 0 THEN 256 + basis ELSE basis

\* const logBasisEval = basis < 0 ? 255 + basis : basis
logBasisEval(basis) == IF basis < 0 THEN 255 + basis ELSE basis

\* XOR of the values r of all shares at one byte position
RECURSIVE XorAll(_)
XorAll(s) == IF s = <<>> THEN 0 ELSE BitXor(Head(s), XorAll(Tail(s)))

\* The logarithms of the Lagrange basis polynomials evaluated at x, one for
\* each entry of shares: logProd, sum, basis and logBasisEval of the code.
lagrangeLogs(shares, x) ==
  LET logProd == SumSeq([i \in 1..Len(shares) |-> LOG_TABLE[BitXor(shares[i][1], x) + 1]])
      lbe(i) ==
        LET k == shares[i][1]
            sum == SumSeq([j \in 1..Len(shares) |-> LOG_TABLE[BitXor(k, shares[j][1]) + 1]])
            basis == JsRem(logProd - LOG_TABLE[BitXor(k, x) + 1] - sum, 255)
        IN  logBasisEval(basis)
  IN  [i \in 1..Len(shares) |-> lbe(i)]

\* (LOG_TABLE[shareVal] + logBasisEval) % 255, the index read in EXP_TABLE
expIndex(shareVal, lbe) == (LOG_TABLE[shareVal + 1] + lbe) % 255

interpolate(shares, x) ==
  LET sharesValueLengths == {Len(shares[i][2]) : i \in 1..Len(shares)}
      len == Len(shares[1][2])
      lbes == lagrangeLogs(shares, x)
      term(i, idx) ==
        LET shareVal == shares[i][2][idx]
        IN  IF shareVal # 0
            THEN EXP_TABLE[expIndex(shareVal, lbes[i]) + 1]
            ELSE 0
  IN  IF Cardinality(sharesValueLengths) # 1
      THEN Err("Invalid set of shares. All share values must have the same length.")
      ELSE IF MapHas(shares, x) /\ \E i \in 1..Len(shares) : shares[i][1] # x
      THEN Err("Invalid set of shares. All share values must have the same length.")
      ELSE Ok([idx \in 1..len |-> XorAll([i \in 1..Len(shares) |-> term(i, idx)])])

(***************************************************************************)
(* slip39_helper.ts: split and recover                                     *)
(***************************************************************************)
createDigest(randomData, sharedSecret) ==
  SubSeq(PRF(randomData, sharedSecret, 0, 32), 1, 4)

\* The random bytes splitSecret reads: randomPart, then threshold - 2 shares.
splitRandomUsed(threshold, shareCount, sharedSecret) ==
  IF threshold <= 1 \/ threshold > shareCount \/ shareCount > MAX_SHARE_COUNT
  THEN 0
  ELSE (Len(sharedSecret) - DIGEST_LENGTH) + (threshold - 2) * Len(sharedSecret)

\* a check that lets any number of shares through
anyShareCount(shareCount) == FALSE

\* shareCount > MAX_SHARE_COUNT
tooManyShares(shareCount) == shareCount > MAX_SHARE_COUNT

\* the abscissas counted from one
splitAbscissaFromOne(randomShareCount, j) == randomShareCount + j

\* for (let i = randomShareCount; i < shareCount; i++): i in the j-th pass
splitAbscissa(randomShareCount, j) == randomShareCount + j - 1

splitSecret(threshold, shareCount, sharedSecret, seed, pos) ==
  IF threshold <= 0
  THEN Err("The requested threshold must be a positive integer.")
  ELSE IF threshold > shareCount
  THEN Err("The requested threshold must not exceed the number of shares.")
  ELSE IF tooManyShares(shareCount)
  THEN Err("The requested number of shares must not exceed MAX_SHARE_COUNT.")
  ELSE IF threshold = 1
  THEN Ok(generateArray(<<>>, shareCount, [i \in 0..(shareCount - 1) |-> sharedSecret]))
  ELSE
    LET len == Len(sharedSecret)
        randomShareCount == threshold - 2
        randomPart == randomBytes(seed, pos, len - DIGEST_LENGTH)
        digest == createDigest(randomPart, sharedSecret)
        shares == IF randomShareCount # 0
                  THEN generateArray(<<>>, randomShareCount,
                         [i \in 0..(randomShareCount - 1) |->
                            randomBytes(seed, pos + (len - DIGEST_LENGTH) + i * len, len)])
                  ELSE <<>>
        baseShares == [i \in 1..Len(shares) |-> <<i - 1, shares[i]>>]
                        \o << <<DIGEST_INDEX, digest \o randomPart>>,
                              <<SECRET_INDEX, sharedSecret>> >>
    IN  Ok(shares \o [j \in 1..(shareCount - randomShareCount) |->
                        interpolate(baseShares, splitAbscissa(randomShareCount, j)).val])

\* recoverSecret that returns the value at index 255 without looking at the
\* digest
recoverSecretUnchecked(threshold, shares) ==
  IF threshold = 1
  THEN Ok(MapValues(shares)[1])
  ELSE interpolate(shares, SECRET_INDEX)

recoverSecret(threshold, shares) ==
  IF threshold = 1
  THEN Ok(MapValues(shares)[1])
  ELSE
    LET sharedSecret == interpolate(shares, SECRET_INDEX)
        digestShare == interpolate(shares, DIGEST_INDEX)
        digest == SubSeq(digestShare.val, 1, DIGEST_LENGTH)
        randomPart == SubSeq(digestShare.val, DIGEST_LENGTH + 1, Len(digestShare.val))
        recoveredDigest == createDigest(randomPart, sharedSecret.val)
    IN  IF ~sharedSecret.ok THEN sharedSecret
        ELSE IF ~digestShare.ok THEN digestShare
        ELSE IF ~listsAreEqual(digest, recoveredDigest)
        THEN Err("Invalid digest of the shared secret.")
        ELSE sharedSecret

(***************************************************************************)
(* slip39_helper.ts: RS1024 checksum                                       *)
(***************************************************************************)
GEN ==
  <<14737472, 29474944, 58949888, 117899776, 235798537,
    470557714, 940076068, 814808136, 565311632, 66318624>>

\* for (let i = 0; i < 10; i++) chk = chk ^ (((b >> i) & 1) !== 0 ? GEN[i] : 0)
RECURSIVE polymodGen(_, _, _)
polymodGen(chk, b, i) ==
  IF i = 10 \/ chk < 0 THEN chk
  ELSE polymodGen(IF LowBits(ShiftRight(b, i), 1) # 0
                  THEN BitXor(chk, GEN[i + 1]) ELSE chk,
                  b, i + 1)

\* The loop on chk = 0, for every b = chk >> 20 of a 30-bit chk.
polymodGenOf == [b \in 0..(Pow2(RADIX_BITS) - 1) |-> polymodGen(0, b, 0)]

\* the step that shifts chk whole, without the mask 0xfffff
polymodStepUnmasked(chk, byte) ==
  polymodGen(BitXor(ShiftLeft(chk, 10), byte), LowBits(ShiftRight(chk, 20), 10), 0)

\* const b = chk >> 20; chk = ((chk & 0xfffff) << 10) ^ byte; then the loop,
\* whose XORs with GEN[i] are taken together (XOR is associative)
polymodStep(chk, byte) ==
  IF ShiftRight(chk, 20) \in DOMAIN polymodGenOf
  THEN BitXor(BitXor(ShiftLeft(LowBits(chk, 20), 10), byte),
              polymodGenOf[ShiftRight(chk, 20)])
  ELSE polymodGen(BitXor(ShiftLeft(LowBits(chk, 20), 10), byte), ShiftRight(chk, 20), 0)

RECURSIVE polymodFrom(_, _, _)
polymodFrom(chk, data, i) ==
  IF i > Len(data) \/ chk < 0 THEN chk
  ELSE polymodFrom(polymodStep(chk, data[i]), data, i + 1)

rs1024Polymod(data) == polymodFrom(1, data, 1)

get_customization_string(extendableBackupFlag) ==
  IF extendableBackupFlag # 0
  THEN CUSTOMIZATION_STRING_EXTENDABLE
  ELSE CUSTOMIZATION_STRING_NON_EXTENDABLE

rs1024CreateChecksum(data, extendableBackupFlag) ==
  LET values == encodeHexString(get_customization_string(extendableBackupFlag))
                  \o data
                  \o generateArray(<<>>, CHECKSUM_WORDS_LENGTH,
                                   [i \in 0..(CHECKSUM_WORDS_LENGTH - 1) |-> 0])
      polymod == BitXor(rs1024Polymod(values), 1)
  IN  Reverse(generateArray(<<>>, CHECKSUM_WORDS_LENGTH,
                [i \in 0..(CHECKSUM_WORDS_LENGTH - 1) |->
                   LowBits(ShiftRight(polymod, 10 * i), 10)]))

rs1024VerifyChecksum(data, extendableBackupFlag) ==
  rs1024Polymod(encodeHexString(get_customization_string(extendableBackupFlag))
                  \o data) = 1

(***************************************************************************)
(* slip39_helper.ts: words and integers                                    *)
(***************************************************************************)
\* value = value * 1024 + index, for indices in 0..1023
intFromIndices(indices) ==
  Normalize([k \in 1..(RADIX_BITS * Len(indices)) |->
               (indices[Len(indices) - ((k - 1) \div RADIX_BITS)]
                  \div Pow2((k - 1) % RADIX_BITS)) % 2])

intToIndices(value, length, bits) ==
  Reverse(generateArray(<<>>, length,
            [i \in 0..(length - 1) |-> BigSlice(value, i * bits, bits)]))

\* WORD_LIST[index], undefined outside the list
mnemonicFromIndices(indices) ==
  [i \in 1..Len(indices) |->
     IF indices[i] \in 0..(Pow2(RADIX_BITS) - 1) THEN indices[i] ELSE NoWord]

\* WORD_LIST_MAP[item]; "".split(" ") is one word that is no word of the list
mnemonicToIndices(mnemonic) ==
  IF mnemonic = <<>> \/ \E i \in 1..Len(mnemonic) : mnemonic[i] = NoWord
  THEN Err("Invalid mnemonic word")
  ELSE Ok([i \in 1..Len(mnemonic) |-> mnemonic[i]])

(***************************************************************************)
(* slip39_helper.ts: mnemonic codec                                        *)
(***************************************************************************)
\* data.slice(from, to)
Slice(data, from, to) == SubSeq(data, from + 1, to)

\* the padding counted over all the words of the mnemonic
paddingLenAllWords(length) == JsRem(RADIX_BITS * length, 16)

\* const paddingLen = (RADIX_BITS * (data.length - METADATA_WORDS_LENGTH)) % 16
paddingLen(length) == JsRem(RADIX_BITS * (length - METADATA_WORDS_LENGTH), 16)

decodeMnemonic(mnemonic) ==
  LET indices == mnemonicToIndices(mnemonic)
      data == indices.val
      idExpExtInt == NumberOf(intFromIndices(Slice(data, 0, ITERATION_EXP_WORDS_LENGTH)))
      identifier ==
        ShiftRight(idExpExtInt, ITERATION_EXP_BITS_LENGTH + EXTENDABLE_BACKUP_FLAG_BITS_LENGTH)
      extendableBackupFlag ==
        LowBits(ShiftRight(idExpExtInt, ITERATION_EXP_BITS_LENGTH),
                EXTENDABLE_BACKUP_FLAG_BITS_LENGTH)
      iterationExponent == LowBits(idExpExtInt, ITERATION_EXP_BITS_LENGTH)
      tmp == intFromIndices(Slice(data, ITERATION_EXP_WORDS_LENGTH,
                                  ITERATION_EXP_WORDS_LENGTH + 2))
      nibbles == intToIndices(tmp, 5, 4)
      groupIndex == nibbles[1]
      groupThreshold == nibbles[2]
      groupCount == nibbles[3]
      memberIndex == nibbles[4]
      memberThreshold == nibbles[5]
      valueData == Slice(data, ITERATION_EXP_WORDS_LENGTH + 2,
                         Len(data) - CHECKSUM_WORDS_LENGTH)
      valueInt == intFromIndices(valueData)
      valueByteCount ==
        bitsToBytes(RADIX_BITS * Len(valueData) - paddingLen(Len(data)))
      share == encodeBigInt(valueInt, valueByteCount)
  IN  IF ~indices.ok THEN indices
      ELSE IF Len(data) < MNEMONICS_WORDS_LENGTH
      THEN Err("Invalid mnemonic length. The length of each mnemonic must be at least MNEMONICS_WORDS_LENGTH words.")
      ELSE IF paddingLen(Len(data)) > 8
      THEN Err("Invalid mnemonic length.")
      ELSE IF ~rs1024VerifyChecksum(data, extendableBackupFlag)
      THEN Err("Invalid mnemonic checksum")
      ELSE IF groupCount < groupThreshold
      THEN Err("Invalid mnemonic: Group threshold cannot be greater than group count.")
      ELSE IF ~share.ok
      THEN Err("Invalid mnemonic padding")
      ELSE Ok([identifier |-> identifier,
               extendableBackupFlag |-> extendableBackupFlag,
               iterationExponent |-> iterationExponent,
               groupIndex |-> groupIndex,
               groupThreshold |-> groupThreshold + 1,
               groupCount |-> groupCount + 1,
               memberIndex |-> memberIndex,
               memberThreshold |-> memberThreshold + 1,
               share |-> share.val])

validateMnemonic(mnemonic) == decodeMnemonic(mnemonic).ok

groupPrefix(identifier, extendableBackupFlag, iterationExponent, groupIndex, groupThreshold, groupCount) ==
  LET idExpInt ==
        BigIntOf(ShiftLeft(identifier,
                           ITERATION_EXP_BITS_LENGTH + EXTENDABLE_BACKUP_FLAG_BITS_LENGTH)
                   + ShiftLeft(extendableBackupFlag, ITERATION_EXP_BITS_LENGTH)
                   + iterationExponent)
      indc == intToIndices(idExpInt, ITERATION_EXP_WORDS_LENGTH, RADIX_BITS)
      indc2 == ShiftLeft(groupIndex, 6) + ShiftLeft(groupThreshold - 1, 2)
                 + ShiftRight(groupCount - 1, 2)
  IN  Append(indc, indc2)

encodeMnemonic(identifier, extendableBackupFlag, iterationExponent, groupIndex, groupThreshold, groupCount, memberIndex, memberThreshold, value) ==
  LET valueWordCount == bitsToWords(Len(value) * 8)
      valueInt == decodeBigInt(value)
      newIdentifier == NumberOf(decodeBigInt(identifier))
      gp == groupPrefix(newIdentifier, extendableBackupFlag, iterationExponent,
                        groupIndex, groupThreshold, groupCount)
      tp == intToIndices(valueInt, valueWordCount, RADIX_BITS)
      calc == ShiftLeft(LowBits(groupCount - 1, 2), 8) + ShiftLeft(memberIndex, 4)
                + (memberThreshold - 1)
      shareData == Append(gp, calc) \o tp
      checksum == rs1024CreateChecksum(shareData, extendableBackupFlag)
  IN  mnemonicFromIndices(shareData \o checksum)

(***************************************************************************)
(* slip39_helper.ts: crypt, one step per round.  A crypt frame holds the   *)
(* locals of one call of crypt.                                            *)
(***************************************************************************)
\* if (iterationExponent < 0 || iterationExponent > MAX_ITERATION_EXP)
\* the lower bound alone
negativeIterationExponent(iterationExponent) == iterationExponent < 0

\* iterationExponent < 0 || iterationExponent > MAX_ITERATION_EXP
invalidIterationExponent(iterationExponent) ==
  iterationExponent < 0 \/ iterationExponent > MAX_ITERATION_EXP

\* the rounds in the same order for both directions
cryptRangeForward(encrypt) ==
  generateArray(<<>>, ROUND_COUNT, [i \in 0..(ROUND_COUNT - 1) |-> i])

\* let range = generateArray([], ROUND_COUNT); range = encrypt ? range : range.reverse()
cryptRange(encrypt) ==
  LET range == generateArray(<<>>, ROUND_COUNT, [i \in 0..(ROUND_COUNT - 1) |-> i])
  IN  IF encrypt THEN range ELSE Reverse(range)

\* crypt up to its loop
cryptBegin(masterSecret, passphrase, iterationExponent, identifier, extendableBackupFlag, encrypt) ==
  IF invalidIterationExponent(iterationExponent)
  THEN Err("Invalid iteration exponent")
  ELSE Ok([IL |-> Slice(masterSecret, 0, Len(masterSecret) \div 2),
           IR |-> Slice(masterSecret, Len(masterSecret) \div 2, Len(masterSecret)),
           pwd |-> encodeHexString(passphrase),
           salt |-> getSalt(identifier, extendableBackupFlag),
           range |-> cryptRange(encrypt),
           iterationExponent |-> iterationExponent])

\* one iteration of  for (const round of range)
cryptRound(c) ==
  LET round == Head(c.range)
      f == roundFunction(round, c.pwd, c.iterationExponent, c.salt, c.IR)
      t == xor(c.IL, f)
  IN  IF ~t.ok THEN t
      ELSE Ok([c EXCEPT !.IL = c.IR, !.IR = t.val, !.range = Tail(c.range)])

\* return IR.concat(IL)
cryptEnd(c) == c.IR \o c.IL

NoCrypt ==
  [IL |-> <<>>, IR |-> <<>>, pwd |-> <<>>, salt |-> <<>>, range |-> <<>>,
   iterationExponent |-> 0]

(***************************************************************************)
(* slip39.ts: Slip39Node and Slip39                                        *)
(***************************************************************************)
\* new Slip39Node(index): no mnemonic, no children
Slip39Node(index) == [index |-> index, mnemonic |-> <<>>, children |-> <<>>]

RECURSIVE Flatten(_)
Flatten(ss) == IF ss = <<>> THEN <<>> ELSE Head(ss) \o Flatten(Tail(ss))

\* get mnemonics()
RECURSIVE mnemonics(_)
mnemonics(node) ==
  IF Len(node.children) = 0
  THEN <<node.mnemonic>>
  ELSE Flatten([i \in 1..Len(node.children) |-> mnemonics(node.children[i])])

\* a test that every passphrase passes
anyPassphrase(passphrase) == TRUE

\* /^[\x20-\x7E]*$/.test(passphrase)
printableASCII(passphrase) ==
  \A i \in 1..Len(passphrase) : passphrase[i] \in 32..126

\* item[0] === 1 && item[1] > 1
multipleSharesWithThresholdOne(item) == item[1] = 1 /\ item[2] > 1

\* fromArray up to the call of crypt: its checks and the constructor's
fromArrayChecks(masterSecret, passphrase, groups, groupThreshold, identifier) ==
  IF Len(masterSecret) * 8 < MIN_ENTROPY_BITS
  THEN Err("The length of the master secret must be at least 16 bytes.")
  ELSE IF Len(masterSecret) % 2 # 0
  THEN Err("The length of the master secret in bytes must be an even number.")
  ELSE IF ~printableASCII(passphrase)
  THEN Err("The passphrase must contain only printable ASCII characters (code points 32-126).")
  ELSE IF groupThreshold > Len(groups)
  THEN Err("The requested group threshold must not exceed the number of groups.")
  ELSE IF \E i \in 1..Len(groups) : multipleSharesWithThresholdOne(groups[i])
  THEN Err("Creating multiple member shares with member threshold 1 is not allowed.")
  ELSE IF Len(identifier) = 0
  THEN Err("Missing required parameter identifier")
  ELSE IF Len(groups) = 0
  THEN Err("Missing required parameter groupCount")
  ELSE IF groupThreshold = 0
  THEN Err("Missing required parameter groupThreshold")
  ELSE Ok(<<>>)

\* buildRecursive below the root: slip is the Slip39 object, pos the position
\* in the random stream; the value is [node, pos].
RECURSIVE buildRecursive(_, _, _, _, _, _, _)
RECURSIVE buildChildren(_, _, _, _, _, _, _)
buildRecursive(slip, currentNode, nodes, secret, threshold, index, pos) ==
  IF Len(nodes) = 0
  THEN Ok([node |-> [currentNode EXCEPT !.mnemonic =
                       encodeMnemonic(slip.identifier, slip.extendableBackupFlag,
                                      slip.iterationExponent, index,
                                      slip.groupThreshold, slip.groupCount,
                                      currentNode.index, threshold, secret)],
           pos |-> pos])
  ELSE
    LET secretShares == splitSecret(threshold, Len(nodes), secret, slip.seed, pos)
        children == buildChildren(slip, currentNode, nodes, secretShares.val, 0, <<>>,
                                  pos + splitRandomUsed(threshold, Len(nodes), secret))
    IN  IF ~secretShares.ok THEN secretShares
        ELSE IF ~children.ok THEN children
        ELSE Ok([node |-> [currentNode EXCEPT !.children = children.val.children],
                 pos |-> children.val.pos])

\* the body of  for (const item of nodes)  for the item at idx
buildChild(slip, currentNode, nodes, secretShares, idx, pos) ==
  LET item == nodes[idx + 1]
      n == item[1]
      m == item[2]
      members == generateArray(<<>>, m, [i \in 0..(m - 1) |-> <<n, 0>>])
  IN  buildRecursive(slip, Slip39Node(idx), members, secretShares[idx + 1], n,
                     currentNode.index, pos)

buildChildren(slip, currentNode, nodes, secretShares, idx, children, pos) ==
  IF idx = Len(nodes)
  THEN Ok([children |-> children, pos |-> pos])
  ELSE
    LET branch == buildChild(slip, currentNode, nodes, secretShares, idx, pos)
    IN  IF ~branch.ok THEN branch
        ELSE buildChildren(slip, currentNode, nodes, secretShares, idx + 1,
                           Append(children, branch.val.node), branch.val.pos)

(***************************************************************************)
(* slip39_helper.ts: decodeMnemonics and combineMnemonics                  *)
(***************************************************************************)
\* set.add(v): a JavaScript Set as the sequence of its values
SetAdd(set, v) ==
  IF \E i \in 1..Len(set) : set[i] = v THEN set ELSE Append(set, v)

NoDecoded ==
  [identifiers |-> <<>>, extendableBackupFlags |-> <<>>, iterationExponents |-> <<>>,
   groupThresholds |-> <<>>, groupCounts |-> <<>>, groups |-> <<>>]

\* the body of  mnemonics.forEach  in decodeMnemonics, on the sets and the map acc
decodeInto(acc, mnemonic) ==
  LET decoded == decodeMnemonic(mnemonic)
      d == decoded.val
      group == IF ~MapHas(acc.groups, d.groupIndex)
               THEN <<>> ELSE MapGet(acc.groups, d.groupIndex)
      member == IF ~MapHas(group, d.memberThreshold)
                THEN <<>> ELSE MapGet(group, d.memberThreshold)
      member2 == MapSet(member, d.memberIndex, d.share)
      group2 == MapSet(group, d.memberThreshold, member2)
  IN  IF ~decoded.ok THEN decoded
      ELSE IF Len(group2) # 1
      THEN Err("Invalid set of mnemonics. All mnemonics in a group must have the same member threshold.")
      ELSE Ok([identifiers |-> SetAdd(acc.identifiers, d.identifier),
               extendableBackupFlags |->
                 SetAdd(acc.extendableBackupFlags, d.extendableBackupFlag),
               iterationExponents |-> SetAdd(acc.iterationExponents, d.iterationExponent),
               groupThresholds |-> SetAdd(acc.groupThresholds, d.groupThreshold),
               groupCounts |-> SetAdd(acc.groupCounts, d.groupCount),
               groups |-> MapSet(acc.groups, d.groupIndex, group2)])

\* decodeMnemonics without its check of the group thresholds.
decodeMnemonicsAnyThreshold(a) ==
  IF Len(a.identifiers) # 1 \/ Len(a.extendableBackupFlags) # 1
     \/ Len(a.iterationExponents) # 1
  THEN Err("Invalid set of mnemonics. All mnemonics must begin with the same words.")
  ELSE IF Len(a.groupCounts) # 1
  THEN Err("Invalid set of mnemonics. All mnemonics must have the same group count.")
  ELSE Ok([identifier |-> a.identifiers[1],
           extendableBackupFlag |-> a.extendableBackupFlags[1],
           iterationExponent |-> a.iterationExponents[1],
           groupThreshold |-> a.groupThresholds[1],
           groupCount |-> a.groupCounts[1],
           groups |-> a.groups])

\* decodeMnemonics after its loop, on the sets and the map a that the loop
\* has filled: the checks of the sizes of the sets and the returned object
decodeMnemonics(a) ==
  IF Len(a.identifiers) # 1 \/ Len(a.extendableBackupFlags) # 1
     \/ Len(a.iterationExponents) # 1
  THEN Err("Invalid set of mnemonics. All mnemonics must begin with the same words.")
  ELSE IF Len(a.groupThresholds) # 1
  THEN Err("Invalid set of mnemonics. All mnemonics must have the same group threshold.")
  ELSE IF Len(a.groupCounts) # 1
  THEN Err("Invalid set of mnemonics. All mnemonics must have the same group count.")
  ELSE Ok([identifier |-> a.identifiers[1],
           extendableBackupFlag |-> a.extendableBackupFlags[1],
           iterationExponent |-> a.iterationExponents[1],
           groupThreshold |-> a.groupThresholds[1],
           groupCount |-> a.groupCounts[1],
           groups |-> a.groups])

\* if (groups.size < groupThreshold)
insufficientGroups(size, groupThreshold) == size < groupThreshold

\* no check of the number of groups beyond the insufficient one
anyGroupCount(size, groupThreshold) == FALSE

\* if (groups.size !== groupThreshold)
wrongGroupCount(size, groupThreshold) == size # groupThreshold

\* The check of the number of shares that lets more than threshold pass.
tooFewMembers(size, threshold) == size < threshold

\* if (shares.size !== threshold)
wrongMemberCount(size, threshold) == size # threshold

\* combineMnemonics from the return of decodeMnemonics up to its loop over the
\* groups
combineBegin(decoded) ==
  IF ~decoded.ok THEN decoded
  ELSE IF insufficientGroups(Len(decoded.val.groups), decoded.val.groupThreshold)
  THEN Err("Insufficient number of mnemonic groups.")
  ELSE IF wrongGroupCount(Len(decoded.val.groups), decoded.val.groupThreshold)
  THEN Err("Wrong number of mnemonic groups.")
  ELSE decoded

\* the body of  for (const [groupIndex, members] of groups.entries()): the
\* group's recovered share
combineGroup(members) ==
  LET threshold == MapKeys(members)[1]
      shares == MapValues(members)[1]
  IN  IF wrongMemberCount(Len(shares), threshold)
      THEN Err("Wrong number of mnemonics.")
      ELSE recoverSecret(threshold, shares)

\* const id = intToIndices(BigInt(identifier), ITERATION_EXP_WORDS_LENGTH, 8)
combineIdentifier(identifier) ==
  intToIndices(BigIntOf(identifier), ITERATION_EXP_WORDS_LENGTH, 8)

(***************************************************************************)
(* The state: one frame per call.                                          *)
(*   gen  the call of Slip39.fromArray: its arguments, its locals, its     *)
(*        position pc and what it returned (status, error, root)           *)
(*   rec  the call of Slip39.recoverSecret (combineMnemonics)              *)
(*   val  the call of Slip39.validateMnemonic                              *)
(*   cr   a call of crypt followed by the call that inverts it             *)
(*   fn   a call of splitSecret followed by recoverSecret on some of its   *)
(*        shares, a call of interpolate, or a call of encodeMnemonic       *)
(*        followed by decodeMnemonic on its result                         *)
(***************************************************************************)
VARIABLES gen, rec, val, cr, fn

vars == <<gen, rec, val, cr, fn>>

(***************************************************************************)
(* Bounds and inputs.                                                      *)
(***************************************************************************)
\* The longest list of mnemonics given to recover.
MaxList == 3

\* "ABCDEFGHIJKLMNOP"
S16 == [i \in 1..16 |-> 64 + i]

S18 == [i \in 1..18 |-> (i * 37) % 256]

\* Master secrets: 16 and 18 bytes, too short (14), odd (17).
Secrets == {S16, S18, SubSeq(S16, 1, 14), S16 \o <<55>>}

\* Passphrases: "", "TR", and two with a character outside 32..126.
Passphrases == {<<>>, <<84, 82>>, <<84, 31>>, <<127>>}

GoodPassphrases == {p \in Passphrases : printableASCII(p)}

Seeds == {1, 2}

\* An identifier as generateIdentifier returns it: 2 bytes, the top bit clear.
Identifiers == {<<18, 52>>}

Policy(groupThreshold, groups) == [groupThreshold |-> groupThreshold, groups |-> groups]

Ones(n) == [i \in 1..n |-> <<1, 1>>]

\* Policies of the round trip: 1 <= G <= g, 1 <= M <= N, no (1, N > 1).
RoundTripPolicies ==
  { Policy(1, <<<<1, 1>>>>),
    Policy(1, <<<<2, 3>>>>),
    Policy(2, <<<<1, 1>>, <<2, 2>>>>),
    Policy(1, <<<<3, 3>>>>),
    Policy(1, <<<<2, 2>>, <<1, 1>>>>) }

\* Policies with a wrong group: M < 1, N < M (also N = 0), M = 1 and N > 1.
MemberPolicies ==
  { Policy(1, <<<<0, 1>>>>),
    Policy(1, <<<<2, 1>>>>),
    Policy(1, <<<<2, 0>>>>),
    Policy(1, <<<<1, 2>>>>),
    Policy(2, <<<<1, 1>>, <<3, 2>>>>),
    Policy(1, <<<<1, 1>>, <<0, 0>>>>) }

\* Policies with a wrong group threshold or a wrong number of groups, and the
\* largest ones that are accepted.
GroupPolicies ==
  { Policy(2, <<<<1, 1>>>>),
    Policy(0, <<<<1, 1>>>>),
    Policy(-1, <<<<1, 1>>>>),
    Policy(0, <<>>),
    Policy(1, <<>>),
    Policy(1, Ones(MAX_SHARE_COUNT + 1)),
    Policy(2, Ones(MAX_SHARE_COUNT + 1)),
    Policy(1, Ones(MAX_SHARE_COUNT)),
    Policy(MAX_SHARE_COUNT, Ones(MAX_SHARE_COUNT)) }

Policies == RoundTripPolicies \cup MemberPolicies \cup GroupPolicies

Exponents == {-1, 0, 1, MAX_ITERATION_EXP - 1, MAX_ITERATION_EXP, MAX_ITERATION_EXP + 1, 33}

Call(masterSecret, passphrase, policy, iterationExponent, extendableBackupFlag, identifier, seed) ==
  [masterSecret |-> masterSecret, passphrase |-> passphrase,
   groups |-> policy.groups, groupThreshold |-> policy.groupThreshold,
   iterationExponent |-> iterationExponent,
   extendableBackupFlag |-> extendableBackupFlag,
   identifier |-> identifier, seed |-> seed]

\* generate(S, policy, P): the other options at their defaults
\* (extendableBackupFlag = 1, iterationExponent = 0, a generated identifier).
RoundTripCalls ==
  { Call(s, p, pol, 0, 1, id, seed) :
      s \in {S16, S18}, p \in GoodPassphrases, pol \in RoundTripPolicies,
      id \in Identifiers, seed \in Seeds }

\* Calls of generate that fail: in fromArray's checks (secret, passphrase),
\* in crypt, in the split among the groups, in the split of the second group
\* among its members after the first group has been built.
RejectedCalls ==
  { Call(SubSeq(S16, 1, 14), <<>>, Policy(1, <<<<1, 1>>>>), 0, 1, <<18, 52>>, 1),
    Call(S16, <<127>>, Policy(1, <<<<1, 1>>>>), 0, 1, <<18, 52>>, 1),
    Call(S16, <<>>, Policy(1, <<<<1, 1>>>>), 33, 1, <<18, 52>>, 1),
    Call(S16, <<>>, Policy(-1, <<<<1, 1>>>>), 0, 1, <<18, 52>>, 1),
    Call(S16, <<>>, Policy(2, <<<<1, 1>>, <<3, 2>>>>), 0, 1, <<18, 52>>, 1) }

\* generate with any options.
AllCalls ==
  { Call(s, p, pol, e, f, id, seed) :
      s \in Secrets, p \in Passphrases, pol \in Policies, e \in Exponents,
      f \in {0, 1}, id \in Identifiers, seed \in Seeds }

(***************************************************************************)
(* Frames.                                                                 *)
(***************************************************************************)
NoTree == Slip39Node(0)

GenIdle ==
  [pc |-> "idle", args |-> <<>>, c |-> NoCrypt, secretShares |-> <<>>, idx |-> 0,
   children |-> <<>>, pos |-> 0, rounds |-> 0, splits |-> 0,
   status |-> "none", error |-> "", root |-> NoTree]

RecIdle ==
  [pc |-> "idle", mnemonics |-> <<>>, passphrase |-> <<>>, di |-> 0,
   acc |-> NoDecoded, decoded |-> <<>>,
   gi |-> 0, allShares |-> <<>>, c |-> NoCrypt, rounds |-> 0,
   status |-> "none", error |-> "", secret |-> <<>>]

ValIdle == [pc |-> "idle", mnemonic |-> <<>>, result |-> FALSE]

CrIdle ==
  [pc |-> "idle", args |-> <<>>, c |-> NoCrypt, encrypt |-> TRUE, order |-> <<>>,
   encrypted |-> <<>>, status |-> "none", error |-> "", result |-> <<>>]

\* the frame of a call of one of the helpers
FnIdle == [pc |-> "idle", op |-> "", args |-> <<>>, out |-> <<>>]

\* the rejected promise: the caller gets the error and nothing else
Throw(frame, e) == [frame EXCEPT !.pc = "done", !.status = "error", !.error = e]

\* one Slip39 object for every call: the flag is the one that the recover in
\* flight has decoded
slipOfShared(args) ==
  [identifier |-> args.identifier,
   extendableBackupFlag |-> IF rec.pc \in {"group", "round"}
                            THEN rec.decoded.extendableBackupFlag
                            ELSE args.extendableBackupFlag,
   iterationExponent |-> args.iterationExponent,
   groupCount |-> Len(args.groups),
   groupThreshold |-> args.groupThreshold,
   seed |-> args.seed]

\* new Slip39({...}), with the seed of the random stream of the call
slipOf(args) ==
  [identifier |-> args.identifier,
   extendableBackupFlag |-> args.extendableBackupFlag,
   iterationExponent |-> args.iterationExponent,
   groupCount |-> Len(args.groups),
   groupThreshold |-> args.groupThreshold,
   seed |-> args.seed]

(***************************************************************************)
(* Slip39.fromArray, one action per step.                                  *)
(***************************************************************************)
\* The call: the arguments are bound, nothing has run yet.
GenStartWith(calls) ==
  /\ gen.pc = "idle"
  /\ \E a \in calls : gen' = [GenIdle EXCEPT !.pc = "validate", !.args = a]
  /\ UNCHANGED <<rec, val, cr, fn>>

\* The checks of fromArray and of the constructor.
GenValidate ==
  /\ gen.pc = "validate"
  /\ LET a == gen.args
         r == fromArrayChecks(a.masterSecret, a.passphrase, a.groups,
                              a.groupThreshold, a.identifier)
     IN  gen' = IF r.ok THEN [gen EXCEPT !.pc = "crypt"] ELSE Throw(gen, r.err)
  /\ UNCHANGED <<rec, val, cr, fn>>

\* crypt(masterSecret, passphrase, iterationExponent, slip.identifier, flag)
GenCryptBegin ==
  /\ gen.pc = "crypt"
  /\ LET a == gen.args
         r == cryptBegin(a.masterSecret, a.passphrase, a.iterationExponent,
                         a.identifier, a.extendableBackupFlag, TRUE)
     IN  gen' = IF r.ok THEN [gen EXCEPT !.pc = "round", !.c = r.val]
                ELSE Throw(gen, r.err)
  /\ UNCHANGED <<rec, val, cr, fn>>

GenRound ==
  /\ gen.pc = "round"
  /\ gen.c.range # <<>>
  /\ LET r == cryptRound(gen.c)
     IN  gen' = IF r.ok THEN [gen EXCEPT !.c = r.val, !.rounds = @ + 1]
                ELSE Throw([gen EXCEPT !.rounds = @ + 1], r.err)
  /\ UNCHANGED <<rec, val, cr, fn>>

\* crypt returns; buildRecursive(root, groups, encryptedMasterSecret,
\* groupThreshold) splits the secret among the groups.
GenSplit ==
  /\ gen.pc = "round"
  /\ gen.c.range = <<>>
  /\ LET a == gen.args
         encryptedMasterSecret == cryptEnd(gen.c)
         r == splitSecret(a.groupThreshold, Len(a.groups), encryptedMasterSecret,
                          a.seed, gen.pos)
     IN  gen' = IF r.ok
                THEN [gen EXCEPT !.pc = "group", !.secretShares = r.val,
                                 !.splits = @ + 1,
                                 !.pos = @ + splitRandomUsed(a.groupThreshold,
                                           Len(a.groups), encryptedMasterSecret)]
                ELSE Throw([gen EXCEPT !.splits = @ + 1], r.err)
  /\ UNCHANGED <<rec, val, cr, fn>>

\* The loop of the root handing back the groups built so far when one fails.
GenGroupPartial ==
  /\ gen.pc = "group"
  /\ gen.idx < Len(gen.args.groups)
  /\ LET a == gen.args
         r == buildChild(slipOf(a), NoTree, a.groups, gen.secretShares, gen.idx, gen.pos)
     IN  gen' = IF r.ok
                THEN [gen EXCEPT !.children = Append(@, r.val.node),
                                 !.idx = @ + 1, !.pos = r.val.pos]
                ELSE [Throw(gen, r.err) EXCEPT
                        !.root = [NoTree EXCEPT !.children = gen.children]]
  /\ UNCHANGED <<rec, val, cr, fn>>

\* One group of the root's loop: its node, its member shares, its leaves.
GenGroup ==
  /\ gen.pc = "group"
  /\ gen.idx < Len(gen.args.groups)
  /\ LET a == gen.args
         r == buildChild(slipOf(a), NoTree, a.groups, gen.secretShares, gen.idx, gen.pos)
         split == IF a.groups[gen.idx + 1][2] > 0 THEN 1 ELSE 0
     IN  gen' = IF r.ok
                THEN [gen EXCEPT !.children = Append(@, r.val.node),
                                 !.idx = @ + 1, !.pos = r.val.pos,
                                 !.splits = @ + split]
                ELSE Throw([gen EXCEPT !.splits = @ + split], r.err)
  /\ UNCHANGED <<rec, val, cr, fn>>

\* currentNode.children = children; slip.root = ...; return slip
GenReturn ==
  /\ gen.pc = "group"
  /\ gen.idx = Len(gen.args.groups)
  /\ gen' = [gen EXCEPT !.pc = "done", !.status = "ok",
                        !.root = [NoTree EXCEPT !.children = gen.children]]
  /\ UNCHANGED <<rec, val, cr, fn>>

(***************************************************************************)
(* Slip39.recoverSecret = combineMnemonics, one action per step.           *)
(***************************************************************************)
RecStartWith(list, passphrase) ==
  /\ rec.pc = "idle"
  /\ rec' = [RecIdle EXCEPT !.pc = "decode", !.mnemonics = list,
                            !.passphrase = passphrase]
  /\ UNCHANGED <<gen, val, cr, fn>>

\* if (mnemonics.length === 0) throw
RecEmpty ==
  /\ rec.pc = "decode"
  /\ Len(rec.mnemonics) = 0
  /\ rec' = Throw(rec, "The list of mnemonics is empty.")
  /\ UNCHANGED <<gen, val, cr, fn>>

\* One mnemonic of  mnemonics.forEach  in decodeMnemonics.
RecDecode ==
  /\ rec.pc = "decode"
  /\ rec.di < Len(rec.mnemonics)
  /\ \E r \in {decodeInto(rec.acc, rec.mnemonics[rec.di + 1])} :
       rec' = IF r.ok THEN [rec EXCEPT !.acc = r.val, !.di = @ + 1]
              ELSE Throw(rec, r.err)
  /\ UNCHANGED <<gen, val, cr, fn>>

\* The end of decodeMnemonics and the checks of the number of groups.
RecCheck ==
  /\ rec.pc = "decode"
  /\ Len(rec.mnemonics) # 0
  /\ rec.di = Len(rec.mnemonics)
  /\ \E r \in {combineBegin(decodeMnemonics(rec.acc))} :
       rec' = IF r.ok THEN [rec EXCEPT !.pc = "group", !.decoded = r.val]
              ELSE Throw(rec, r.err)
  /\ UNCHANGED <<gen, val, cr, fn>>

\* One group of the loop: the check of its number of shares, recoverSecret.
RecGroup ==
  /\ rec.pc = "group"
  /\ rec.gi < Len(rec.decoded.groups)
  /\ \E r \in {combineGroup(rec.decoded.groups[rec.gi + 1][2])} :
       rec' = IF r.ok
              THEN [rec EXCEPT !.allShares =
                                 MapSet(@, rec.decoded.groups[rec.gi + 1][1], r.val),
                               !.gi = @ + 1]
              ELSE Throw(rec, r.err)
  /\ UNCHANGED <<gen, val, cr, fn>>

\* recoverSecret(groupThreshold, allShares) and the call of crypt
RecRoot ==
  /\ rec.pc = "group"
  /\ rec.gi = Len(rec.decoded.groups)
  /\ \E ems \in {recoverSecret(rec.decoded.groupThreshold, rec.allShares)} :
       IF ~ems.ok THEN rec' = Throw(rec, ems.err)
       ELSE \E r \in {cryptBegin(ems.val, rec.passphrase, rec.decoded.iterationExponent,
                                 combineIdentifier(rec.decoded.identifier),
                                 rec.decoded.extendableBackupFlag, FALSE)} :
              rec' = IF r.ok THEN [rec EXCEPT !.pc = "round", !.c = r.val]
                     ELSE Throw(rec, r.err)
  /\ UNCHANGED <<gen, val, cr, fn>>

RecRound ==
  /\ rec.pc = "round"
  /\ rec.c.range # <<>>
  /\ \E r \in {cryptRound(rec.c)} :
       rec' = IF r.ok THEN [rec EXCEPT !.c = r.val, !.rounds = @ + 1]
              ELSE Throw(rec, r.err)
  /\ UNCHANGED <<gen, val, cr, fn>>

RecReturn ==
  /\ rec.pc = "round"
  /\ rec.c.range = <<>>
  /\ rec' = [rec EXCEPT !.pc = "done", !.status = "ok", !.secret = cryptEnd(rec.c)]
  /\ UNCHANGED <<gen, val, cr, fn>>

(***************************************************************************)
(* The lists of mnemonics given to recover.                                *)
(***************************************************************************)
\* The mnemonics of the share tree that generate returned.
Leaves == mnemonics(gen.root)

LeafSet == {Leaves[i] : i \in 1..Len(Leaves)}

ListsOver(pool, n) == UNION {[1..k -> pool] : k \in 0..n}

Injective(list) == \A i, j \in 1..Len(list) : list[i] = list[j] => i = j

IdentifierBytes(identifier) == <<identifier \div 256, identifier % 256>>

\* Valid mnemonics of other share sets: the mnemonic m encoded again with one
\* field of its metadata changed.
Variants(m) ==
  LET d == decodeMnemonic(m).val
      enc(id, f, e, gt, gc, mt) ==
        encodeMnemonic(IdentifierBytes(id), f, e, d.groupIndex, gt, gc,
                       d.memberIndex, mt, d.share)
      id0 == d.identifier
      f0 == d.extendableBackupFlag
      e0 == d.iterationExponent
      gt0 == d.groupThreshold
      gc0 == d.groupCount
      mt0 == d.memberThreshold
  IN  { enc((id0 + 1) % Pow2(ID_BITS_LENGTH), f0, e0, gt0, gc0, mt0),
        enc(id0, 1 - f0, e0, gt0, gc0, mt0),
        enc(id0, f0, (e0 + 1) % Pow2(ITERATION_EXP_BITS_LENGTH), gt0, gc0, mt0),
        enc(id0, f0, e0, gt0, IF gc0 < MAX_SHARE_COUNT THEN gc0 + 1 ELSE gc0 - 1, mt0),
        enc(id0, f0, e0, gt0, gc0, IF mt0 < MAX_SHARE_COUNT THEN mt0 + 1 ELSE mt0 - 1) }
      \cup (IF gt0 < gc0 THEN {enc(id0, f0, e0, gt0 + 1, gc0, mt0)}
            ELSE IF gt0 > 1 THEN {enc(id0, f0, e0, gt0 - 1, gc0, mt0)}
            ELSE {})

\* recover(list, P) on mnemonics of the share tree, in any order, with
\* repetitions, too few or too many, and the passphrase P of generate.
RecStart ==
  /\ rec.pc = "idle"
  /\ gen.pc = "done"
  /\ gen.status = "ok"
  /\ \E list \in ListsOver(LeafSet, MaxList) :
       RecStartWith(list, gen.args.passphrase)

\* recover on distinct mnemonics of the share tree and another passphrase.
RecStartOther ==
  /\ rec.pc = "idle"
  /\ gen.pc = "done"
  /\ gen.status = "ok"
  /\ \E list \in ListsOver(LeafSet, MaxList), p \in GoodPassphrases :
       /\ Injective(list)
       /\ p # gen.args.passphrase
       /\ RecStartWith(list, p)

\* recover on a list in which one mnemonic is of another share set.
RecStartForeign ==
  /\ rec.pc = "idle"
  /\ gen.pc = "done"
  /\ gen.status = "ok"
  /\ \E list \in ListsOver(LeafSet, 2) :
       /\ Len(list) = 2
       /\ Injective(list)
       /\ \E k \in 1..2 : \E v \in Variants(list[k]) :
            RecStartWith([list EXCEPT ![k] = v], gen.args.passphrase)

(***************************************************************************)
(* Slip39.validateMnemonic                                                 *)
(***************************************************************************)
ValidateWith(m) ==
  /\ val.pc = "idle"
  /\ val' = [pc |-> "done", mnemonic |-> m, result |-> validateMnemonic(m)]
  /\ UNCHANGED <<gen, rec, cr, fn>>

\* validateMnemonic on a mnemonic of the share tree
ValidateLeaf ==
  /\ val.pc = "idle"
  /\ gen.pc = "done"
  /\ gen.status = "ok"
  /\ \E m \in LeafSet : ValidateWith(m)

\* Mnemonics as a user may type them: a head of 4 words as encodeMnemonic
\* writes it, k share words of which the first is top, the checksum of flag f,
\* and, when bad, a word that is not in the list.
Typed(head, k, top, f, bad) ==
  LET data == head \o <<top>> \o [i \in 1..(k - 1) |-> (i * 211) % 1024]
      words == data \o rs1024CreateChecksum(data, f)
  IN  IF bad THEN [words EXCEPT ![6] = NoWord] ELSE words

TypedHeads ==
  { Append(groupPrefix(4660, f, 0, 0, t[1], t[2]), ShiftLeft(LowBits(t[2] - 1, 2), 8)) :
      f \in {0, 1}, t \in {<<1, 1>>, <<2, 1>>, <<1, 2>>} }

TypedMnemonics ==
  { Typed(head, k, top, f, bad) :
      head \in TypedHeads, k \in 12..15, top \in {0, 1, 255, 256, 1023},
      f \in {0, 1}, bad \in BOOLEAN }

ValidateTyped ==
  /\ val.pc = "idle"
  /\ \E m \in TypedMnemonics : ValidateWith(m)

(***************************************************************************)
(* crypt alone: crypt(S, ..., encrypt = true), then crypt of its result    *)
(* with the same parameters and encrypt = false.                           *)
(***************************************************************************)
CryptSecrets == {<<>>, <<7, 200>>, S16, S18}

CryptIdentifiers == {<<18, 52>>, <<0, 18, 52>>}

CryptCalls ==
  { [masterSecret |-> s, passphrase |-> p, iterationExponent |-> e,
     identifier |-> id, extendableBackupFlag |-> f] :
      s \in CryptSecrets, p \in GoodPassphrases, e \in Exponents,
      id \in CryptIdentifiers, f \in {0, 1} }

CrStart ==
  /\ cr.pc = "idle"
  /\ \E a \in CryptCalls : cr' = [CrIdle EXCEPT !.pc = "call", !.args = a]
  /\ UNCHANGED <<gen, rec, val, fn>>

CrBegin ==
  /\ cr.pc = "call"
  /\ LET a == cr.args
         r == cryptBegin(a.masterSecret, a.passphrase, a.iterationExponent,
                         a.identifier, a.extendableBackupFlag, TRUE)
     IN  cr' = IF r.ok THEN [cr EXCEPT !.pc = "round", !.c = r.val]
               ELSE Throw(cr, r.err)
  /\ UNCHANGED <<gen, rec, val, fn>>

CrRound ==
  /\ cr.pc = "round"
  /\ cr.c.range # <<>>
  /\ LET r == cryptRound(cr.c)
     IN  cr' = IF r.ok
               THEN [cr EXCEPT !.c = r.val, !.order = Append(@, Head(cr.c.range))]
               ELSE Throw(cr, r.err)
  /\ UNCHANGED <<gen, rec, val, fn>>

\* The first call returns; the second call begins on its result.
CrTurn ==
  /\ cr.pc = "round"
  /\ cr.c.range = <<>>
  /\ cr.encrypt
  /\ LET a == cr.args
         r == cryptBegin(cryptEnd(cr.c), a.passphrase, a.iterationExponent,
                         a.identifier, a.extendableBackupFlag, FALSE)
     IN  cr' = IF r.ok
               THEN [cr EXCEPT !.c = r.val, !.encrypt = FALSE,
                               !.encrypted = cryptEnd(cr.c)]
               ELSE Throw(cr, r.err)
  /\ UNCHANGED <<gen, rec, val, fn>>

CrReturn ==
  /\ cr.pc = "round"
  /\ cr.c.range = <<>>
  /\ ~cr.encrypt
  /\ cr' = [cr EXCEPT !.pc = "done", !.status = "ok", !.result = cryptEnd(cr.c)]
  /\ UNCHANGED <<gen, rec, val, fn>>

(***************************************************************************)
(* Specifications.                                                         *)
(***************************************************************************)
Init ==
  /\ gen = GenIdle
  /\ rec = RecIdle
  /\ val = ValIdle
  /\ cr = CrIdle
  /\ fn = FnIdle

\* generate(S, policy, P), its other options at their defaults
GenStart == GenStartWith(RoundTripCalls)

\* generate with any options
GenStartAny == GenStartWith(AllCalls)

\* generate on arguments that make one of its steps fail
GenStartRejected == GenStartWith(RejectedCalls)

\* generate, then recover on mnemonics of the share tree.
Next ==
  \/ GenStart
  \/ GenStartRejected
  \/ GenValidate
  \/ GenCryptBegin
  \/ GenRound
  \/ GenSplit
  \/ GenGroup
  \/ GenReturn
  \/ RecStart
  \/ RecStartOther
  \/ RecStartForeign
  \/ RecEmpty
  \/ RecDecode
  \/ RecCheck
  \/ RecGroup
  \/ RecRoot
  \/ RecRound
  \/ RecReturn

Spec == Init /\ [][Next]_vars

\* generate with any options, then validateMnemonic on a mnemonic of the tree.
NextGenerate ==
  \/ GenStartAny
  \/ GenValidate
  \/ GenCryptBegin
  \/ GenRound
  \/ GenSplit
  \/ GenGroup
  \/ GenReturn
  \/ ValidateLeaf

SpecGenerate == Init /\ [][NextGenerate]_vars

\* validateMnemonic on typed mnemonics.
NextValidate == ValidateTyped

SpecValidate == Init /\ [][NextValidate]_vars

\* crypt and its inverse.
NextCrypt ==
  \/ CrStart
  \/ CrBegin
  \/ CrRound
  \/ CrTurn
  \/ CrReturn

SpecCrypt == Init /\ [][NextCrypt]_vars


(***************************************************************************)
(* Properties of generate followed by recover (Spec).                      *)
(***************************************************************************)
\* The places <<g, m>> of the mnemonics in the share tree that generate
\* returned: member m of group g, both counted from 1.
TreeLeaves ==
  UNION { {<<g, m>> : m \in 1..Len(gen.root.children[g].children)} :
            g \in 1..Len(gen.root.children) }

LeafAt(gm) == gen.root.children[gm[1]].children[gm[2]].mnemonic

Picked(list) == {gm \in TreeLeaves : \E k \in 1..Len(list) : list[k] = LeafAt(gm)}

PickedGroups(list) == {gm[1] : gm \in Picked(list)}

\* list is made of exactly M_i distinct mnemonics from each of exactly G
\* distinct groups of the share tree.
ExactSelection(list) ==
  /\ Injective(list)
  /\ \A k \in 1..Len(list) : \E gm \in TreeLeaves : list[k] = LeafAt(gm)
  /\ Cardinality(PickedGroups(list)) = gen.args.groupThreshold
  /\ \A g \in PickedGroups(list) :
       Cardinality({gm \in Picked(list) : gm[1] = g}) = gen.args.groups[g][1]

\* C1: threshold round trip.  When recover has returned on a list of exactly
\* M_i distinct mnemonics from each of exactly G distinct groups of
\* generate(S, policy, P), in any order, and on the passphrase P, it has
\* returned exactly S.
C1_ThresholdRoundTrip ==
  (/\ rec.pc = "done"
   /\ gen.status = "ok"
   /\ rec.passphrase = gen.args.passphrase
   /\ ExactSelection(rec.mnemonics))
  => (rec.status = "ok" /\ rec.secret = gen.args.masterSecret)

\* A round trip on three mnemonics of two groups, given in another order
\* than the order of the share tree.
C1_Witness ==
  /\ rec.pc = "done"
  /\ gen.status = "ok"
  /\ rec.passphrase = gen.args.passphrase
  /\ ExactSelection(rec.mnemonics)
  /\ gen.args.groupThreshold = 2
  /\ Len(rec.mnemonics) = 3
  /\ rec.mnemonics[1] = LeafAt(<<2, 2>>)
  /\ rec.mnemonics[3] = LeafAt(<<2, 1>>)
  /\ rec.secret = gen.args.masterSecret


\* What the mnemonics of a list say, each decoded on its own.
Said(list) == {decodeMnemonic(list[k]) : k \in 1..Len(list)}

AllValid(said) == \A d \in said : d.ok

\* The number of distinct group indices equals the group threshold, and in
\* every group present the number of distinct member indices equals the
\* member threshold that the group's mnemonics carry.
ExactCounts(said) ==
  /\ \A d \in said :
       Cardinality({e.val.groupIndex : e \in said}) = d.val.groupThreshold
  /\ \A d \in said :
       Cardinality({e.val.memberIndex :
                      e \in {x \in said : x.val.groupIndex = d.val.groupIndex}})
         = d.val.memberThreshold

\* C2: exact-count rule of recover.  recover returns a secret only when the
\* number of distinct group indices among its mnemonics equals the group
\* threshold and every group present has exactly its member threshold of
\* distinct member indices; otherwise it ends with an error and no secret.
C2_ExactCountRule ==
  rec.pc = "done" =>
    /\ rec.status \in {"ok", "error"}
    /\ rec.status = "error" => (rec.error # "" /\ rec.secret = <<>>)
    /\ rec.status = "ok" =>
         LET said == Said(rec.mnemonics)
         IN  AllValid(said) /\ ExactCounts(said)

\* A group with member threshold 2 given 3 distinct shares: recover fails.
C2_Witness ==
  /\ rec.pc = "done"
  /\ rec.status = "error"
  /\ rec.error = "Wrong number of mnemonics."
  /\ rec.secret = <<>>
  /\ Injective(rec.mnemonics)
  /\ Len(rec.mnemonics) = 3
  /\ \A k \in 1..3 : \E gm \in TreeLeaves : rec.mnemonics[k] = LeafAt(gm)
  /\ Cardinality(PickedGroups(rec.mnemonics)) = 1
  /\ \A g \in PickedGroups(rec.mnemonics) : gen.args.groups[g][1] = 2

\* Two mnemonics differ in a field that all must share, or two of one group
\* carry different member thresholds.
Inconsistent(said) ==
  \E a, b \in said :
    \/ a.val.identifier # b.val.identifier
    \/ a.val.extendableBackupFlag # b.val.extendableBackupFlag
    \/ a.val.iterationExponent # b.val.iterationExponent
    \/ a.val.groupThreshold # b.val.groupThreshold
    \/ a.val.groupCount # b.val.groupCount
    \/ (a.val.groupIndex = b.val.groupIndex
          /\ a.val.memberThreshold # b.val.memberThreshold)

\* C3: cross-mnemonic consistency.  On a list of individually valid mnemonics
\* of which two differ in identifier, extendable flag, iteration exponent,
\* group threshold or group count, or two of one group differ in member
\* threshold, recover ends with an error, wherever the differing one stands.
C3_CrossMnemonicConsistency ==
  (rec.pc = "done" /\ rec.status # "error") =>
    LET said == Said(rec.mnemonics)
    IN  ~(AllValid(said) /\ Inconsistent(said))

\* The first of two valid mnemonics carries another group threshold than the
\* second, which is of the share tree: recover fails.
C3_Witness ==
  /\ rec.pc = "done"
  /\ rec.status = "error"
  /\ rec.error = "Invalid set of mnemonics. All mnemonics must have the same group threshold."
  /\ Len(rec.mnemonics) = 2
  /\ \E gm \in TreeLeaves : rec.mnemonics[2] = LeafAt(gm)
  /\ LET said == Said(rec.mnemonics)
     IN  /\ AllValid(said)
         /\ \E a, b \in said :
              /\ a.val.groupThreshold # b.val.groupThreshold
              /\ a.val.identifier = b.val.identifier
              /\ a.val.groupCount = b.val.groupCount

(***************************************************************************)
(* Properties of generate with any options (SpecGenerate).                 *)
(***************************************************************************)
\* C4: whenever generate has succeeded (any accepted secret, identifier,
\* extendable flag 0 or 1, iteration exponent in 0..16, any accepted policy),
\* validateMnemonic returns true for every mnemonic of the returned share tree.
C4_GeneratedMnemonicsValidate ==
  (gen.pc = "done" /\ gen.status = "ok" /\ val.pc = "done"
     /\ gen.args.iterationExponent \in 0..MAX_ITERATION_EXP)
    => val.result = TRUE

\* The same for the exponents that fit the 4 bits of the mnemonic's head.
C4_FourBitExponentsValidate ==
  (gen.pc = "done" /\ gen.status = "ok" /\ val.pc = "done"
     /\ gen.args.iterationExponent < Pow2(ITERATION_EXP_BITS_LENGTH))
    => val.result = TRUE

(***************************************************************************)
(* Properties of validateMnemonic on typed mnemonics (SpecValidate).       *)
(* The conditions are read off the words of the mnemonic, not off the      *)
(* decoder.                                                                *)
(***************************************************************************)
WordsInList(m) == m # <<>> /\ \A i \in 1..Len(m) : m[i] \in 0..(Pow2(RADIX_BITS) - 1)

LongEnough(m) == Len(m) >= MNEMONICS_WORDS_LENGTH

\* the bits that the share words hold beyond whole 16-bit units
PaddingBits(m) == (RADIX_BITS * (Len(m) - METADATA_WORDS_LENGTH)) % 16

\* bit j of the share words, counted from the most significant bit of word 5
ShareBit(m, j) ==
  (m[ITERATION_EXP_WORDS_LENGTH + 3 + ((j - 1) \div RADIX_BITS)]
     \div Pow2(RADIX_BITS - 1 - ((j - 1) % RADIX_BITS))) % 2

PaddingBitsZero(m) == \A j \in 1..PaddingBits(m) : ShareBit(m, j) = 0

\* the extendable flag: bit 4 of the second word
FlagOf(m) == (m[2] \div Pow2(ITERATION_EXP_BITS_LENGTH)) % 2

ChecksumVerifies(m) == rs1024VerifyChecksum(m, FlagOf(m))

\* the fields of words 3 and 4: groupThreshold - 1 and groupCount - 1
GroupThresholdOf(m) == (m[3] \div 4) % 16

GroupCountOf(m) == (m[3] % 4) * 4 + (m[4] \div 256)

GroupCountSuffices(m) == GroupCountOf(m) >= GroupThresholdOf(m)

StatedConditions(m) ==
  /\ WordsInList(m)
  /\ LongEnough(m)
  /\ PaddingBitsZero(m)
  /\ ChecksumVerifies(m)
  /\ GroupCountSuffices(m)

\* C5 as stated: validateMnemonic(m) returns true if and only if every word is
\* in the word list, the word count is at least 20, the padding bits of the
\* share value are zero, the checksum verifies under the customization string
\* of the decoded extendable flag, and groupCount >= groupThreshold; otherwise
\* it returns false, and it never throws.
C5_ValidateIffStated ==
  val.pc = "done" =>
    /\ val.result \in BOOLEAN
    /\ val.result = StatedConditions(val.mnemonic)

\* C5 amended: the same, with one more condition: the number of padding bits,
\* (10 * (word count - 7)) mod 16, is at most 8.
C5_ValidateIffStatedAndPaddingFits ==
  val.pc = "done" =>
    /\ val.result \in BOOLEAN
    /\ val.result = (StatedConditions(val.mnemonic) /\ PaddingBits(val.mnemonic) <= 8)

\* a mnemonic with padding bits, all of them zero, is accepted
C5_Witness ==
  /\ val.pc = "done"
  /\ val.result = TRUE
  /\ StatedConditions(val.mnemonic)
  /\ PaddingBits(val.mnemonic) \in 1..8

(***************************************************************************)
(* Properties of the checks of generate (SpecGenerate).                    *)
(***************************************************************************)
\* nothing of crypt or of splitSecret has run, and no tree is returned
NothingDone ==
  /\ gen.pc \in {"validate", "done"}
  /\ gen.c = NoCrypt
  /\ gen.rounds = 0
  /\ gen.splits = 0
  /\ gen.secretShares = <<>>
  /\ gen.children = <<>>
  /\ gen.root = NoTree
  /\ gen.pc = "done" => gen.status = "error"

ShortSecret(a) == Len(a.masterSecret) < 16

OddSecret(a) == Len(a.masterSecret) % 2 = 1

OutsidePrintable(a) == \E i \in 1..Len(a.passphrase) : a.passphrase[i] \notin 32..126

PassphraseError ==
  "The passphrase must contain only printable ASCII characters (code points 32-126)."

\* C6: generate rejects, before any encryption or splitting and without
\* returning a share tree, every master secret shorter than 16 bytes, every
\* master secret of odd length and every passphrase with a character outside
\* 32..126; the empty passphrase is accepted.
C6_SecretAndPassphraseChecks ==
  gen.pc # "idle" =>
    /\ (ShortSecret(gen.args) \/ OddSecret(gen.args) \/ OutsidePrintable(gen.args))
         => NothingDone
    /\ (gen.args.passphrase = <<>> /\ gen.pc = "done") => gen.error # PassphraseError
    /\ (gen.args.passphrase = <<>> /\ gen.pc = "done" /\ gen.status = "error"
          /\ ~ShortSecret(gen.args) /\ ~OddSecret(gen.args))
         => gen.rounds + gen.splits > 0 \/ gen.c # NoCrypt
              \/ gen.error \notin
                   {"The length of the master secret must be at least 16 bytes.",
                    "The length of the master secret in bytes must be an even number.",
                    PassphraseError}

\* a secret of good length with a passphrase holding a control character is
\* rejected for the passphrase
C6_Witness ==
  /\ gen.pc = "done"
  /\ gen.status = "error"
  /\ gen.error = PassphraseError
  /\ ~ShortSecret(gen.args)
  /\ ~OddSecret(gen.args)
  /\ OutsidePrintable(gen.args)
  /\ NothingDone

BadGroup(g) == g[1] < 1 \/ g[2] < g[1] \/ (g[1] = 1 /\ g[2] > 1)

HasBadGroup(a) == \E i \in 1..Len(a.groups) : BadGroup(a.groups[i])

\* C7: generate rejects every policy that has a group (M, N) with M < 1, or
\* N < M (N = 0 included), or M = 1 and N > 1: it ends with an error and
\* no mnemonic is produced for any group.
C7_BadGroupsRejected ==
  (gen.pc = "done" /\ HasBadGroup(gen.args))
    => gen.status = "error" /\ gen.root = NoTree

\* The same for the groups with N >= 1.
C7_BadGroupsWithMembersRejected ==
  (gen.pc = "done" /\ HasBadGroup(gen.args)
     /\ (\A i \in 1..Len(gen.args.groups) : gen.args.groups[i][2] >= 1))
    => gen.status = "error" /\ gen.root = NoTree

BadGroupLevel(a) ==
  \/ a.groupThreshold > Len(a.groups)
  \/ a.groupThreshold <= 0
  \/ Len(a.groups) = 0
  \/ Len(a.groups) > 16

\* the errors of the checks on the group threshold and the number of groups
GroupLevelErrors ==
  {"The requested group threshold must not exceed the number of groups.",
   "Missing required parameter groupCount",
   "Missing required parameter groupThreshold"}

\* an error of splitSecret called on the groups of the root
RootSplitError == gen.status = "error" /\ gen.splits = 1 /\ gen.secretShares = <<>>

\* C8: generate rejects every policy whose group threshold G exceeds the
\* number of groups, or with G <= 0, or with no group or more than 16 groups;
\* every policy with 1 <= G <= |groups| <= 16 passes the checks on G and on
\* the number of groups.
C8_GroupLevelChecks ==
  gen.pc = "done" =>
    /\ BadGroupLevel(gen.args) => gen.status = "error" /\ gen.root = NoTree
    /\ ~BadGroupLevel(gen.args)
         => gen.error \notin GroupLevelErrors /\ ~RootSplitError

\* one group too many is rejected by splitSecret, after the encryption
C8_Witness ==
  /\ gen.pc = "done"
  /\ Len(gen.args.groups) = MAX_SHARE_COUNT + 1
  /\ gen.args.groupThreshold = 1
  /\ RootSplitError
  /\ gen.root = NoTree

ExponentError == "Invalid iteration exponent"

\* C9: an iteration exponent outside 0..16 is rejected by crypt: generate
\* ends with the invalid-iteration-exponent error before any Feistel round or
\* split has run and returns no share tree; every exponent in 0..16 passes
\* this check.
C9_ExponentCheckedAtCrypt ==
  gen.pc # "idle" =>
    /\ gen.args.iterationExponent \notin 0..16
         => /\ gen.rounds = 0
            /\ gen.splits = 0
            /\ gen.root = NoTree
            /\ gen.pc \in {"validate", "crypt", "done"}
            /\ gen.pc = "done" => gen.status = "error"
            /\ (gen.pc = "done" /\ gen.c = NoCrypt
                  /\ fromArrayChecks(gen.args.masterSecret, gen.args.passphrase,
                                     gen.args.groups, gen.args.groupThreshold,
                                     gen.args.identifier).ok)
                 => gen.error = ExponentError
    /\ gen.args.iterationExponent \in 0..16 => gen.error # ExponentError

C9_Witness ==
  /\ gen.pc = "done"
  /\ gen.args.iterationExponent = 33
  /\ gen.error = ExponentError
  /\ gen.rounds = 0
  /\ gen.splits = 0
  /\ gen.root = NoTree

(***************************************************************************)
(* Properties of crypt (SpecCrypt).                                        *)
(***************************************************************************)
\* C10: for every even-length secret S, passphrase, exponent in 0..16,
\* identifier and flag, crypt with encrypt = false on the result of crypt
\* with encrypt = true and the same parameters returns S; the rounds run in
\* the order 0, 1, 2, 3 to encrypt and 3, 2, 1, 0 to decrypt, and each
\* output has the length of S.
C10_FeistelInverse ==
  (cr.pc = "done" /\ cr.args.iterationExponent \in 0..16
     /\ Len(cr.args.masterSecret) % 2 = 0)
    => /\ cr.status = "ok"
       /\ cr.result = cr.args.masterSecret
       /\ cr.order = <<0, 1, 2, 3, 3, 2, 1, 0>>
       /\ Len(cr.encrypted) = Len(cr.args.masterSecret)
       /\ Len(cr.result) = Len(cr.args.masterSecret)

\* both calls have returned on an 18-byte secret that the first call changed
C10_Witness ==
  /\ cr.pc = "done"
  /\ cr.status = "ok"
  /\ Len(cr.args.masterSecret) = 18
  /\ cr.args.iterationExponent = MAX_ITERATION_EXP
  /\ cr.encrypted # cr.args.masterSecret
  /\ cr.result = cr.args.masterSecret

(***************************************************************************)
(* Properties of recover with another passphrase (Spec).                   *)
(***************************************************************************)
FromTree(list) == \A k \in 1..Len(list) : \E gm \in TreeLeaves : list[k] = LeafAt(gm)

\* the mnemonics of list, repeated or not, are exactly M_i of each of
\* exactly G groups of the share tree
ExactLeaves(list) ==
  /\ FromTree(list)
  /\ Cardinality(PickedGroups(list)) = gen.args.groupThreshold
  /\ \A g \in PickedGroups(list) :
       Cardinality({gm \in Picked(list) : gm[1] = g}) = gen.args.groups[g][1]

\* C11: the passphrase is not an integrity check.  On mnemonics of the share
\* tree, recover ends ok exactly on the selections that recover S under the
\* passphrase P of generate, whatever passphrase it is given: with another
\* passphrase, the empty one included, it raises no error on such a selection
\* and returns a byte string of the length of S; and every error of recover
\* is raised before crypt, the only user of the passphrase, has begun.
C11_PassphraseNotChecked ==
  (rec.pc = "done" /\ gen.status = "ok" /\ FromTree(rec.mnemonics)) =>
    /\ (rec.status = "ok") = ExactLeaves(rec.mnemonics)
    /\ rec.status = "ok" => Len(rec.secret) = Len(gen.args.masterSecret)
    /\ rec.status = "error" => (rec.c = NoCrypt /\ rec.rounds = 0)

\* generate with "TR", recover with the empty passphrase on three mnemonics
C11_Witness ==
  /\ rec.pc = "done"
  /\ gen.status = "ok"
  /\ gen.args.passphrase = <<84, 82>>
  /\ rec.passphrase = <<>>
  /\ ExactSelection(rec.mnemonics)
  /\ Len(rec.mnemonics) = 3
  /\ rec.status = "ok"
  /\ Len(rec.secret) = Len(gen.args.masterSecret)

(***************************************************************************)
(* Properties of the mnemonics of one share tree (SpecGenerate).           *)
(***************************************************************************)
\* every mnemonic of the tree decoded on its own
SaidByTree == {decodeMnemonic(m) : m \in LeafSet}

Uniform(said) ==
  /\ \A d \in said : d.ok
  /\ \A a, b \in said :
       /\ a.val.identifier = b.val.identifier
       /\ a.val.extendableBackupFlag = b.val.extendableBackupFlag
       /\ a.val.iterationExponent = b.val.iterationExponent
       /\ a.val.groupThreshold = b.val.groupThreshold
       /\ a.val.groupCount = b.val.groupCount
       /\ a.val.groupIndex = b.val.groupIndex
            => a.val.memberThreshold = b.val.memberThreshold

\* C12: the mnemonics returned by one successful generate all decode, to one
\* single identifier, extendable flag, iteration exponent, group threshold
\* and group count, and within each group index to one member threshold.
C12_MetadataUniform ==
  (gen.pc = "done" /\ gen.status = "ok") => Uniform(SaidByTree)

\* The same for the exponents that fit the 4 bits of the mnemonic's head and
\* the groups that have members.
C12_UniformWhenEncodable ==
  (gen.pc = "done" /\ gen.status = "ok"
     /\ gen.args.iterationExponent < Pow2(ITERATION_EXP_BITS_LENGTH)
     /\ \A i \in 1..Len(gen.args.groups) : gen.args.groups[i][2] >= 1)
    => Uniform(SaidByTree)

(***************************************************************************)
(* All or nothing (Spec).                                                  *)
(***************************************************************************)
\* C13: if a step of generate fails (a check, the encryption, the split
\* among the groups, the split of a group among its members), the caller gets
\* an error and no share tree, also no mnemonic of a group already built; if
\* a step of recover fails, the caller gets an error and no secret.  Nothing
\* is handed out before the call returns.
C13_AllOrNothing ==
  /\ gen.pc # "done" => gen.root = NoTree
  /\ gen.pc = "done" =>
       /\ gen.status \in {"ok", "error"}
       /\ gen.status = "error" => (gen.error # "" /\ gen.root = NoTree)
       /\ gen.status = "ok" => (gen.error = "" /\ gen.root.children = gen.children)
  /\ rec.pc # "done" => rec.secret = <<>>
  /\ rec.pc = "done" =>
       /\ rec.status \in {"ok", "error"}
       /\ rec.status = "error" => (rec.error # "" /\ rec.secret = <<>>)
       /\ rec.status = "ok" => rec.error = ""

\* generate failed on its second group after its first group was built
C13_Witness ==
  /\ gen.pc = "done"
  /\ gen.status = "error"
  /\ gen.error = "The requested threshold must not exceed the number of shares."
  /\ Len(gen.children) = 1
  /\ gen.children[1].children[1].mnemonic # <<>>
  /\ gen.root = NoTree

\* recover failed on the digest or the counts after decoding its mnemonics
C13_WitnessRecover ==
  /\ rec.pc = "done"
  /\ rec.status = "error"
  /\ rec.di = Len(rec.mnemonics)
  /\ rec.di > 0
  /\ rec.secret = <<>>

(***************************************************************************)
(* splitSecret, recoverSecret and interpolate alone: splitSecret(T, N,     *)
(* secret), then recoverSecret(T, shares) on some of the returned shares,  *)
(* as they are or with one byte changed; interpolate on a map of points.   *)
(***************************************************************************)
\* (threshold, shareCount): rejected ones, threshold 1, thresholds 2..5, and
\* the largest counts.
SplitShapes ==
  { <<-1, 1>>, <<0, 0>>, <<0, 1>>, <<0, 17>>, <<1, 0>>, <<2, 1>>, <<3, 2>>,
    <<18, 17>>, <<1, 17>>, <<2, 17>>, <<17, 17>>,
    <<1, 1>>, <<1, 3>>, <<1, 16>>, <<2, 2>>, <<2, 3>>, <<2, 5>>, <<3, 3>>,
    <<3, 5>>, <<4, 5>>, <<5, 5>>, <<2, 16>>, <<16, 16>> }

SplitCalls ==
  { [threshold |-> t[1], shareCount |-> t[2], sharedSecret |-> s, seed |-> seed] :
      t \in SplitShapes, s \in {S16, S18}, seed \in Seeds }

\* the members of a set of numbers in ascending order
RECURSIVE Ascending(_)
Ascending(K) ==
  IF K = {} THEN <<>>
  ELSE LET k == CHOOSE x \in K : \A y \in K : x <= y
       IN  <<k>> \o Ascending(K \ {k})

\* the map from the abscissas in K to the shares at these list positions
SharesAt(shares, K) ==
  LET ks == Ascending(K) IN [i \in 1..Len(ks) |-> <<ks[i], shares[ks[i] + 1]>>]

\* the map with the first byte of its first share changed
Damaged(map) ==
  [map EXCEPT ![1] = <<map[1][1], [map[1][2] EXCEPT ![1] = (@ + 1) % 256]>>]

ShSplit ==
  /\ fn.pc = "idle"
  /\ \E a \in SplitCalls :
       \E r \in {splitSecret(a.threshold, a.shareCount, a.sharedSecret, a.seed, 0)} :
         fn' = [pc |-> "split", op |-> "splitSecret", args |-> a, out |-> r]
  /\ UNCHANGED <<gen, rec, val, cr>>

\* recoverSecret(T, map) on T - 1, T or T + 1 of the shares
ShRecover ==
  /\ fn.pc = "split"
  /\ fn.out.ok
  /\ \E K \in SUBSET (0..(fn.args.shareCount - 1)), damage \in BOOLEAN :
       /\ K # {}
       /\ Cardinality(K) \in (fn.args.threshold - 1)..(fn.args.threshold + 1)
       /\ \E map \in {IF damage THEN Damaged(SharesAt(fn.out.val, K))
                      ELSE SharesAt(fn.out.val, K)} :
            \E r \in {recoverSecret(fn.args.threshold, map)} :
              fn' = [pc |-> "done", op |-> "recoverSecret",
                     args |-> [threshold |-> fn.args.threshold, shares |-> map,
                               picked |-> K, damaged |-> damage,
                               split |-> fn.args, all |-> fn.out.val],
                     out |-> r]
  /\ UNCHANGED <<gen, rec, val, cr>>

\* the keys of the maps interpolate is called with, in insertion order
PointKeys == {<<0>>, <<3>>, <<255>>, <<0, 1>>, <<1, 0>>, <<3, 254>>, <<0, 1, 2>>, <<2, 5, 7>>}

\* the value stored for key k under variant v: two bytes, or three for key 1
\* of variant 2
PointValue(k, v) ==
  IF v = 2 /\ k = 1 THEN <<7, 0, 9>>
  ELSE <<(k * 29 + v * 101 + 3) % 256, (k * k + 17 * v) % 256>>

PointMaps ==
  {[i \in 1..Len(ks) |-> <<ks[i], PointValue(ks[i], v)>>] : ks \in PointKeys, v \in 0..2}

PointAbscissas == {0, 1, 2, 3, 5, 254, 255}

\* the indices read in EXP_TABLE: one for every byte of a share that is not 0
expReads(shares, lbes) ==
  UNION { {expIndex(shares[i][2][idx], lbes[i]) :
             idx \in {idx \in 1..Len(shares[i][2]) : shares[i][2][idx] # 0}} :
          i \in 1..Len(shares) }

\* The frame after interpolate(points, x): when the call got as far as the
\* computation, the logarithms of the basis values and the indices read in
\* EXP_TABLE are kept beside the result.
InterpolateFrame(points, x) ==
  LET r == interpolate(points, x)
      lbes == IF r.ok THEN lagrangeLogs(points, x) ELSE <<>>
  IN  [pc |-> "done", op |-> "interpolate",
       args |-> [shares |-> points, x |-> x, logs |-> lbes,
                 reads |-> IF r.ok THEN expReads(points, lbes) ELSE {}],
       out |-> r]

ShInterpolate ==
  /\ fn.pc = "idle"
  /\ \E points \in PointMaps, x \in PointAbscissas :
       \E f \in {InterpolateFrame(points, x)} : fn' = f
  /\ UNCHANGED <<gen, rec, val, cr>>

\* abscissas of points: the smallest, powers of two and their neighbours, the
\* largest
ApartAbscissas == {0, 1, 2, 3, 15, 16, 127, 128, 254, 255}

\* maps of one, two and three points at these abscissas, and the sixteen
\* member indices together; one byte 0, one byte 255 and one between in the
\* values
ApartMaps ==
  { [i \in 1..Len(ks) |-> <<ks[i], <<0, 255, (ks[i] * 29 + 3) % 256>>>>] :
      ks \in {Ascending(K) : K \in {K \in SUBSET ApartAbscissas : Cardinality(K) \in 1..3}}
              \cup {[i \in 1..16 |-> i - 1]} }

\* interpolate(points, x) with x not among the keys
ShInterpolateApart ==
  /\ fn.pc = "idle"
  /\ \E points \in ApartMaps, x \in ApartAbscissas :
       /\ ~MapHas(points, x)
       /\ \E f \in {InterpolateFrame(points, x)} : fn' = f
  /\ UNCHANGED <<gen, rec, val, cr>>

NextShamir ==
  \/ ShSplit
  \/ ShRecover
  \/ ShInterpolate
  \/ ShInterpolateApart

SpecShamir == Init /\ [][NextShamir]_vars

(***************************************************************************)
(* C14                                                                     *)
(***************************************************************************)
\* the digest rule on the values a map of shares gives at 254 and 255
DigestAgrees(map) ==
  LET d == interpolate(map, DIGEST_INDEX).val
      s == interpolate(map, SECRET_INDEX).val
  IN  SubSeq(d, 1, 4) = SubSeq(PRF(SubSeq(d, 5, Len(d)), s, 0, 32), 1, 4)

\* C14: for a threshold T >= 2 recoverSecret(T, shares) returns the value
\* interpolated at index 255 exactly when the first 4 bytes of the value
\* interpolated at index 254 are the first 4 bytes of the keyed hash of the
\* value at 255 under the remaining bytes, and raises an error otherwise;
\* every T-element subset of the shares of splitSecret(T, N, secret) passes
\* and gives secret; for T = 1 the first share is returned unchanged, digest
\* or not.
C14_DigestIntegrity ==
  (fn.pc = "done" /\ fn.op = "recoverSecret") =>
    LET T == fn.args.threshold
        map == fn.args.shares
    IN  /\ T >= 2 =>
             /\ fn.out.ok = DigestAgrees(map)
             /\ fn.out.ok => fn.out.val = interpolate(map, SECRET_INDEX).val
             /\ ~fn.out.ok => fn.out.err = "Invalid digest of the shared secret."
        /\ (T >= 2 /\ ~fn.args.damaged /\ Cardinality(fn.args.picked) = T) =>
             fn.out = Ok(fn.args.split.sharedSecret)
        /\ T = 1 => fn.out = Ok(map[1][2])

\* three of five shares, not the first three, give the secret back
C14_Witness ==
  /\ fn.pc = "done"
  /\ fn.op = "recoverSecret"
  /\ fn.args.threshold = 3
  /\ fn.args.picked = {0, 2, 4}
  /\ ~fn.args.damaged
  /\ fn.out = Ok(S18)

\* the same three shares with one byte changed are refused
C14_WitnessDamaged ==
  /\ fn.pc = "done"
  /\ fn.op = "recoverSecret"
  /\ fn.args.threshold = 3
  /\ fn.args.picked = {0, 2, 4}
  /\ fn.args.damaged
  /\ fn.out = Err("Invalid digest of the shared secret.")

(***************************************************************************)
(* C16                                                                     *)
(***************************************************************************)
\* the last T shares at their list positions
LastPoints(T, N, shares) == SharesAt(shares, (N - T)..(N - 1))

\* One polynomial of degree below T takes the secret at 255, a value whose
\* digest agrees at 254 and the share at list position i at abscissa i.
OnOnePolynomial(T, N, secret, shares) ==
  LET points == LastPoints(T, N, shares)
  IN  /\ interpolate(points, SECRET_INDEX) = Ok(secret)
      /\ DigestAgrees(points)
      /\ \A i \in 0..(N - T - 1) : interpolate(points, i) = Ok(shares[i + 1])

\* C16: splitSecret(T, N, secret) fails when T <= 0, else when T > N, else
\* when N > 16; for 1 <= T <= N <= 16 it returns N shares as long as the
\* secret, the share at list position i being the value at abscissa i of the
\* polynomial; for T = 1 every share is the secret and no random byte is
\* read.
C16_SplitSecret ==
  (fn.pc = "split" /\ fn.op = "splitSecret") =>
    LET T == fn.args.threshold
        N == fn.args.shareCount
        secret == fn.args.sharedSecret
    IN  /\ T <= 0 =>
             fn.out = Err("The requested threshold must be a positive integer.")
        /\ (T > 0 /\ T > N) =>
             fn.out = Err("The requested threshold must not exceed the number of shares.")
        /\ (T > 0 /\ T <= N /\ N > 16) =>
             fn.out = Err("The requested number of shares must not exceed MAX_SHARE_COUNT.")
        /\ (1 <= T /\ T <= N /\ N <= 16) =>
             /\ fn.out.ok
             /\ Len(fn.out.val) = N
             /\ \A i \in 1..N : Len(fn.out.val[i]) = Len(secret)
        /\ (2 <= T /\ T <= N /\ N <= 16) =>
             OnOnePolynomial(T, N, secret, fn.out.val)
        /\ (T = 1 /\ T <= N /\ N <= 16) =>
             /\ \A i \in 1..N : fn.out.val[i] = secret
             /\ splitRandomUsed(T, N, secret) = 0

\* three of five: two computed shares beside the one random share
C16_Witness ==
  /\ fn.pc = "split"
  /\ fn.op = "splitSecret"
  /\ fn.args.threshold = 3
  /\ fn.args.shareCount = 5
  /\ fn.out.ok
  /\ Len(fn.out.val) = 5
  /\ fn.out.val[1] = randomBytes(fn.args.seed, Len(fn.args.sharedSecret) - 4, Len(fn.args.sharedSecret))

\* a threshold above a count that is itself too large
C16_WitnessOrder ==
  /\ fn.pc = "split"
  /\ fn.args.threshold = 18
  /\ fn.args.shareCount = 17
  /\ fn.out = Err("The requested threshold must not exceed the number of shares.")

(***************************************************************************)
(* C17                                                                     *)
(***************************************************************************)
\* the values of a map all have one length
EqualLengths(points) ==
  \A i, j \in 1..Len(points) : Len(points[i][2]) = Len(points[j][2])

\* C17: when x is one of the keys of points, and points holds one or more
\* entries of equal length, interpolate(points, x) returns the value stored
\* for x.
C17_InterpolateAtKey ==
  (/\ fn.pc = "done"
   /\ fn.op = "interpolate"
   /\ EqualLengths(fn.args.shares)
   /\ MapHas(fn.args.shares, fn.args.x)) =>
    fn.out = Ok(MapGet(fn.args.shares, fn.args.x))

\* The same for maps of exactly one entry.
C17_SingleEntryAtKey ==
  (/\ fn.pc = "done"
   /\ fn.op = "interpolate"
   /\ Len(fn.args.shares) = 1
   /\ MapHas(fn.args.shares, fn.args.x)) =>
    fn.out = Ok(MapGet(fn.args.shares, fn.args.x))

\* With two or more entries of equal length and x a key, the call throws.
C17_ManyEntriesAtKeyThrow ==
  (/\ fn.pc = "done"
   /\ fn.op = "interpolate"
   /\ Len(fn.args.shares) >= 2
   /\ EqualLengths(fn.args.shares)
   /\ MapHas(fn.args.shares, fn.args.x)) =>
    fn.out = Err("Invalid set of shares. All share values must have the same length.")

(***************************************************************************)
(* The mnemonic codec alone: encodeMnemonic on the fields of one share,    *)
(* then decodeMnemonic on the words it returned.                           *)
(***************************************************************************)
\* a share of 24 bytes: its 20 words have 8 bits to spare
S24 == [i \in 1..24 |-> (i * 53 + 11) % 256]

\* the identifiers 0, 0x1234 and 2^15 - 1 as the two bytes generate draws
CodecIdentifiers == {<<0, 0>>, <<18, 52>>, <<127, 255>>}

CodecExponents == {0, 1, 15, 16}

\* (groupThreshold, groupCount)
CodecGroupShapes == {<<1, 1>>, <<2, 3>>, <<1, 16>>, <<16, 16>>}

CodecCalls ==
  { [identifier |-> id, extendableBackupFlag |-> flag, iterationExponent |-> e,
     groupIndex |-> gi, groupThreshold |-> g[1], groupCount |-> g[2],
     memberIndex |-> mi, memberThreshold |-> mt, value |-> value] :
      id \in CodecIdentifiers, flag \in {0, 1}, e \in CodecExponents,
      gi \in {0, 15}, g \in CodecGroupShapes, mi \in {0, 15}, mt \in {1, 16},
      value \in {S16, S18, S24} }

CodecEncode ==
  /\ fn.pc = "idle"
  /\ \E a \in CodecCalls :
       \E r \in {encodeMnemonic(a.identifier, a.extendableBackupFlag,
                                a.iterationExponent, a.groupIndex, a.groupThreshold,
                                a.groupCount, a.memberIndex, a.memberThreshold,
                                a.value)} :
         fn' = [pc |-> "encoded", op |-> "encodeMnemonic", args |-> a, out |-> r]
  /\ UNCHANGED <<gen, rec, val, cr>>

CodecDecode ==
  /\ fn.pc = "encoded"
  /\ \E r \in {decodeMnemonic(fn.out)} :
       fn' = [pc |-> "done", op |-> "decodeMnemonic",
              args |-> [mnemonic |-> fn.out, encoded |-> fn.args], out |-> r]
  /\ UNCHANGED <<gen, rec, val, cr>>

\* typed mnemonics of 19 to 27 words, all their words in the list
CodecTyped ==
  { Typed(head, k, top, f, FALSE) :
      head \in TypedHeads, k \in 12..20, top \in {0, 1, 255, 1023}, f \in {0, 1} }

\* decodeMnemonic on a typed mnemonic
CodecDecodeTyped ==
  /\ fn.pc = "idle"
  /\ \E m \in CodecTyped :
       \E r \in {decodeMnemonic(m)} :
         fn' = [pc |-> "typed", op |-> "decodeMnemonic",
                args |-> [mnemonic |-> m], out |-> r]
  /\ UNCHANGED <<gen, rec, val, cr>>

NextCodec ==
  \/ CodecEncode
  \/ CodecDecode
  \/ CodecDecodeTyped

SpecCodec == Init /\ [][NextCodec]_vars

(***************************************************************************)
(* C15                                                                     *)
(***************************************************************************)
\* what decodeMnemonic returns when it gives back what was encoded
SameFields(a) ==
  Ok([identifier |-> a.identifier[1] * 256 + a.identifier[2],
      extendableBackupFlag |-> a.extendableBackupFlag,
      iterationExponent |-> a.iterationExponent,
      groupIndex |-> a.groupIndex,
      groupThreshold |-> a.groupThreshold,
      groupCount |-> a.groupCount,
      memberIndex |-> a.memberIndex,
      memberThreshold |-> a.memberThreshold,
      share |-> a.value])

\* C15: for every identifier below 2^15, flag 0 or 1, iteration exponent in
\* 0..16, group and member index in 0..15, group threshold, group count and
\* member threshold in 1..16 with group threshold <= group count, and every
\* even-length share of 16 bytes or more, decodeMnemonic(encodeMnemonic(...))
\* succeeds and returns the same nine fields.
C15_CodecRoundTrip ==
  (fn.pc = "done" /\ fn.op = "decodeMnemonic") => fn.out = SameFields(fn.args.encoded)

\* The same for the iteration exponents 0..15.
C15_FourBitExponentRoundTrip ==
  (/\ fn.pc = "done"
   /\ fn.op = "decodeMnemonic"
   /\ fn.args.encoded.iterationExponent < Pow2(ITERATION_EXP_BITS_LENGTH)) =>
    fn.out = SameFields(fn.args.encoded)

\* With the exponent 16 the decoder refuses what the encoder returned.
C15_ExponentSixteenRefused ==
  (/\ fn.pc = "done"
   /\ fn.op = "decodeMnemonic"
   /\ fn.args.encoded.iterationExponent = 16) =>
    fn.out = Err("Invalid mnemonic checksum")

(***************************************************************************)
(* C18                                                                     *)
(***************************************************************************)
\* the mnemonics of the members of the groups from g on, group after group
RECURSIVE MemberMnemonics(_, _)
MemberMnemonics(root, g) ==
  IF g > Len(root.children) THEN <<>>
  ELSE [j \in 1..Len(root.children[g].children) |-> root.children[g].children[j].mnemonic]
         \o MemberMnemonics(root, g + 1)

\* groups (M_i, N_i) of the call give a tree of this shape
ShapeOf(groups, root) ==
  /\ Len(root.children) = Len(groups)
  /\ \A i \in 1..Len(groups) :
       /\ Len(root.children[i].children) = groups[i][2]
       /\ \A j \in 1..Len(root.children[i].children) :
            \E d \in {decodeMnemonic(root.children[i].children[j].mnemonic)} :
              /\ d.ok
              /\ d.val.groupIndex = i - 1
              /\ d.val.memberIndex = j - 1
              /\ d.val.memberThreshold = groups[i][1]
  /\ Len(mnemonics(root)) = SumSeq([i \in 1..Len(groups) |-> groups[i][2]])
  /\ mnemonics(root) = MemberMnemonics(root, 1)

\* C18: for every policy accepted by generate with groups (M_i, N_i), group i
\* of the returned tree has N_i leaves, the j-th leaf of group i decodes to
\* group index i, member index j and member threshold M_i, and the root's
\* flat list holds sum(N_i) mnemonics in (group, member) order.
C18_TreeShape ==
  (gen.pc = "done" /\ gen.status = "ok") => ShapeOf(gen.args.groups, gen.root)

\* The same for the exponents that fit the 4 bits of the mnemonic's head and
\* the groups that have members.
C18_ShapeWhenEncodable ==
  (gen.pc = "done" /\ gen.status = "ok"
     /\ gen.args.iterationExponent < Pow2(ITERATION_EXP_BITS_LENGTH)
     /\ \A i \in 1..Len(gen.args.groups) : gen.args.groups[i][2] >= 1)
    => ShapeOf(gen.args.groups, gen.root)

\* The same for the exponents that fit alone: a group without members still
\* breaks the shape.
C18_ShapeWhenExponentFits ==
  (gen.pc = "done" /\ gen.status = "ok"
     /\ gen.args.iterationExponent < Pow2(ITERATION_EXP_BITS_LENGTH))
    => ShapeOf(gen.args.groups, gen.root)

(***************************************************************************)
(* generate with an identifier given by the caller, then recover on        *)
(* mnemonics of the share tree.                                            *)
(***************************************************************************)
\* identifiers as byte arrays: two bytes with the top bit clear, as
\* generateIdentifier returns them, one byte, three bytes, two bytes with the
\* top bit set, and none
GivenIdentifiers ==
  {<<18, 52>>, <<0, 0>>, <<5>>, <<0, 18, 52>>, <<128, 0>>, <<255, 255>>, <<>>}

IdentifiedCalls ==
  { Call(S16, p, pol, 0, f, id, 1) :
      p \in {<<>>, <<84, 82>>},
      pol \in {Policy(1, <<<<1, 1>>>>), Policy(1, <<<<2, 3>>>>)},
      f \in {0, 1}, id \in GivenIdentifiers }

GenStartIdentified == GenStartWith(IdentifiedCalls)

\* The mnemonic m encoded again with another share value: the same metadata,
\* a valid checksum, the first byte of the share changed.
Reshared(m) ==
  LET d == decodeMnemonic(m).val
  IN  encodeMnemonic(IdentifierBytes(d.identifier), d.extendableBackupFlag,
                     d.iterationExponent, d.groupIndex, d.groupThreshold,
                     d.groupCount, d.memberIndex, d.memberThreshold,
                     [d.share EXCEPT ![1] = (@ + 1) % 256])

\* recover on one or two distinct mnemonics of the share tree, the first of
\* them given beside a mnemonic of the same place with another share value,
\* before it or after it
RecStartReplaced ==
  /\ rec.pc = "idle"
  /\ gen.pc = "done"
  /\ gen.status = "ok"
  /\ \E list \in ListsOver(LeafSet, 2), before \in BOOLEAN :
       /\ Len(list) >= 1
       /\ Injective(list)
       /\ decodeMnemonic(list[1]).ok
       /\ RecStartWith(IF before THEN <<Reshared(list[1])>> \o list
                       ELSE <<list[1], Reshared(list[1])>> \o Tail(list),
                       gen.args.passphrase)

NextSalt ==
  \/ GenStartIdentified
  \/ GenValidate
  \/ GenCryptBegin
  \/ GenRound
  \/ GenSplit
  \/ GenGroup
  \/ GenReturn
  \/ RecStart
  \/ RecStartReplaced
  \/ RecEmpty
  \/ RecDecode
  \/ RecCheck
  \/ RecGroup
  \/ RecRoot
  \/ RecRound
  \/ RecReturn

SpecSalt == Init /\ [][NextSalt]_vars

(***************************************************************************)
(* C19                                                                     *)
(***************************************************************************)
\* C19: the salt crypt works with is empty exactly when the extendable flag
\* is 1; and for every share set generate produces with flag 0, whatever
\* non-empty identifier byte array it was given, the salt of crypt in recover
\* ("shamir" and the bytes rebuilt from the decoded identifier) is the salt
\* of crypt in generate, byte for byte.
C19_SaltAgreement ==
  /\ gen.c # NoCrypt =>
       ((gen.c.salt = <<>>) <=> (gen.args.extendableBackupFlag = 1))
  /\ rec.c # NoCrypt =>
       /\ (rec.c.salt = <<>>) <=> (rec.decoded.extendableBackupFlag = 1)
       /\ gen.args.extendableBackupFlag = 0 => rec.c.salt = gen.c.salt

\* an identifier of two bytes with the top bit clear
TwoBytesFifteenBits(identifier) ==
  Len(identifier) = 2 /\ identifier[1] < 128

\* The same for the identifiers that are two bytes with the top bit clear.
C19_SaltAgreesForFifteenBits ==
  /\ gen.c # NoCrypt =>
       ((gen.c.salt = <<>>) <=> (gen.args.extendableBackupFlag = 1))
  /\ rec.c # NoCrypt =>
       /\ (rec.c.salt = <<>>) <=> (rec.decoded.extendableBackupFlag = 1)
       /\ (gen.args.extendableBackupFlag = 0 /\ TwoBytesFifteenBits(gen.args.identifier))
            => rec.c.salt = gen.c.salt

\* With flag 0, recover on an exact selection and the passphrase of generate
\* returns the master secret.
C19_RecoverReturnsMasterSecret ==
  (/\ rec.pc = "done"
   /\ rec.status = "ok"
   /\ gen.args.extendableBackupFlag = 0
   /\ ExactSelection(rec.mnemonics)) =>
    rec.secret = gen.args.masterSecret

(***************************************************************************)
(* generate on master secrets of several lengths.                          *)
(***************************************************************************)
SizedSecret(n) == [i \in 1..n |-> (i * 53 + 11) % 256]

\* 16, 18, 20, 22, 24 and 32 bytes
SizedSecrets == {S16, S18, S24, SizedSecret(20), SizedSecret(22), SizedSecret(32)}

SizedCalls ==
  { Call(s, <<>>, pol, 0, f, <<18, 52>>, seed) :
      s \in SizedSecrets,
      pol \in {Policy(1, <<<<1, 1>>>>), Policy(1, <<<<2, 3>>>>)},
      f \in {0, 1}, seed \in Seeds }

GenStartSized == GenStartWith(SizedCalls)

NextSized ==
  \/ GenStartSized
  \/ GenValidate
  \/ GenCryptBegin
  \/ GenRound
  \/ GenSplit
  \/ GenGroup
  \/ GenReturn

SpecSized == Init /\ [][NextSized]_vars

(***************************************************************************)
(* C20                                                                     *)
(***************************************************************************)
\* 10 * share_words - 8 * share_bytes of a mnemonic of the tree
PaddingCount(m) ==
  RADIX_BITS * (Len(m) - METADATA_WORDS_LENGTH) - 8 * Len(gen.args.masterSecret)

\* the padding bits are the first bits of the share words
PaddingZero(m) == \A j \in 1..PaddingCount(m) : ShareBit(m, j) = 0

\* C20: for every mnemonic produced by generate from a master secret of an
\* accepted length, the number of padding bits 10 * share_words -
\* 8 * share_bytes is in [0, 8) and the padding bits, the most significant
\* bits of the share words, are all zero.
C20_PaddingBelowEight ==
  (gen.pc = "done" /\ gen.status = "ok") =>
    \A m \in LeafSet : PaddingCount(m) \in 0..7 /\ PaddingZero(m)

\* C20, amended: the number of padding bits is in [0, 8], and the padding
\* bits are all zero.
C20_PaddingAtMostEight ==
  (gen.pc = "done" /\ gen.status = "ok") =>
    \A m \in LeafSet : PaddingCount(m) \in 0..8 /\ PaddingZero(m)

\* a tree of three mnemonics of a 24-byte secret: 20 share words, 8 padding
\* bits, all zero
C20_Witness ==
  /\ gen.pc = "done"
  /\ gen.status = "ok"
  /\ gen.args.masterSecret = S24
  /\ Len(Leaves) = 3
  /\ \A m \in LeafSet : PaddingCount(m) = 8 /\ PaddingZero(m)

(***************************************************************************)
(* C21                                                                     *)
(***************************************************************************)
\* ceil(a / b)
CeilDiv(a, b) == CHOOSE w \in 0..a : b * w >= a /\ b * (w - 1) < a

\* the words encodeMnemonic emits for a share of B bytes
WordsFor(B) == METADATA_WORDS_LENGTH + CeilDiv(8 * B, 10)

\* decodeMnemonic returned a share of an even length of 16 bytes or more
EvenAndLong(out) == Len(out.val.share) % 2 = 0 /\ Len(out.val.share) >= 16

\* C21: for a share of B bytes (B even, B >= 16) encodeMnemonic emits
\* METADATA_WORDS_LENGTH + ceil(8 B / 10) words, 20 for B = 16: the prefix
\* words, 2 words of thresholds and indices, the share words and 3 checksum
\* words; decodeMnemonic of that mnemonic returns a share of B bytes; and
\* every share decodeMnemonic returns for an accepted mnemonic has an even
\* length of at least 16 bytes.
C21_WordCount ==
  /\ (fn.pc = "encoded" /\ fn.op = "encodeMnemonic") =>
       /\ Len(fn.out) = WordsFor(Len(fn.args.value))
       /\ Len(fn.out) = ITERATION_EXP_WORDS_LENGTH + 2
                          + CeilDiv(8 * Len(fn.args.value), 10) + CHECKSUM_WORDS_LENGTH
       /\ Len(fn.args.value) = 16 => Len(fn.out) = 20
  /\ (fn.pc = "done" /\ fn.op = "decodeMnemonic") =>
       /\ fn.out.ok
       /\ Len(fn.out.val.share) = Len(fn.args.encoded.value)
  /\ (fn.pc \in {"done", "typed"} /\ fn.op = "decodeMnemonic" /\ fn.out.ok) =>
       EvenAndLong(fn.out)

\* The same with the decoding asked only of the iteration exponents 0..15.
C21_WordCountWhenExponentFits ==
  /\ (fn.pc = "encoded" /\ fn.op = "encodeMnemonic") =>
       /\ Len(fn.out) = WordsFor(Len(fn.args.value))
       /\ Len(fn.out) = ITERATION_EXP_WORDS_LENGTH + 2
                          + CeilDiv(8 * Len(fn.args.value), 10) + CHECKSUM_WORDS_LENGTH
       /\ Len(fn.args.value) = 16 => Len(fn.out) = 20
  /\ (/\ fn.pc = "done"
      /\ fn.op = "decodeMnemonic"
      /\ fn.args.encoded.iterationExponent < Pow2(ITERATION_EXP_BITS_LENGTH)) =>
       /\ fn.out.ok
       /\ Len(fn.out.val.share) = Len(fn.args.encoded.value)
  /\ (fn.pc \in {"done", "typed"} /\ fn.op = "decodeMnemonic" /\ fn.out.ok) =>
       EvenAndLong(fn.out)

\* a typed mnemonic of 27 words is accepted and gives a share of 24 bytes
C21_TypedAccepted ==
  /\ fn.pc = "typed"
  /\ Len(fn.args.mnemonic) = 27
  /\ fn.out.ok
  /\ Len(fn.out.val.share) = 24

(***************************************************************************)
(* The RS1024 checksum alone: rs1024CreateChecksum(data, f), then          *)
(* rs1024VerifyChecksum on data followed by the checksum, one step of      *)
(* rs1024Polymod per input element.                                        *)
(***************************************************************************)
\* the words of the sequences: the smallest, the largest, and two between
ChecksumWords == {0, 1, 682, 1023}

\* every sequence of up to 3 of these words, and the 17 words before the
\* checksum of a 16-byte share
ChecksumData ==
  UNION {[1..k -> ChecksumWords] : k \in 0..3}
    \cup {[i \in 1..17 |-> (i * 211 + w) % 1024] : w \in ChecksumWords}
    \cup {[i \in 1..17 |-> 1023]}

\* the frame of rs1024Polymod(values): chk after i elements
PolymodStart(op, data, flag, values) ==
  [pc |-> "polymod", op |-> op,
   args |-> [data |-> data, flag |-> flag, values |-> values, i |-> 0, chk |-> 1],
   out |-> <<>>]

RsCreateCall ==
  /\ fn.pc = "idle"
  /\ \E data \in ChecksumData, f \in {0, 1} :
       fn' = PolymodStart("rs1024CreateChecksum", data, f,
               encodeHexString(get_customization_string(f)) \o data
                 \o generateArray(<<>>, CHECKSUM_WORDS_LENGTH,
                                  [i \in 0..(CHECKSUM_WORDS_LENGTH - 1) |-> 0]))
  /\ UNCHANGED <<gen, rec, val, cr>>

\* one element of data.forEach in rs1024Polymod
RsPolymodStep ==
  /\ fn.pc = "polymod"
  /\ fn.args.i < Len(fn.args.values)
  /\ fn' = [fn EXCEPT !.args.chk = polymodStep(@, fn.args.values[fn.args.i + 1]),
                      !.args.i = @ + 1]
  /\ UNCHANGED <<gen, rec, val, cr>>

\* the return of rs1024CreateChecksum: the three words of polymod ^ 1
RsCreateReturn ==
  /\ fn.pc = "polymod"
  /\ fn.op = "rs1024CreateChecksum"
  /\ fn.args.i = Len(fn.args.values)
  /\ LET polymod == BitXor(fn.args.chk, 1)
     IN  fn' = [fn EXCEPT !.pc = "created",
                          !.out = Reverse(generateArray(<<>>, CHECKSUM_WORDS_LENGTH,
                                    [i \in 0..(CHECKSUM_WORDS_LENGTH - 1) |->
                                       LowBits(ShiftRight(polymod, 10 * i), 10)]))]
  /\ UNCHANGED <<gen, rec, val, cr>>

\* rs1024VerifyChecksum(data followed by the checksum, f)
RsVerifyCall ==
  /\ fn.pc = "created"
  /\ fn' = PolymodStart("rs1024VerifyChecksum", fn.args.data \o fn.out, fn.args.flag,
             encodeHexString(get_customization_string(fn.args.flag))
               \o fn.args.data \o fn.out)
  /\ UNCHANGED <<gen, rec, val, cr>>

RsVerifyReturn ==
  /\ fn.pc = "polymod"
  /\ fn.op = "rs1024VerifyChecksum"
  /\ fn.args.i = Len(fn.args.values)
  /\ fn' = [fn EXCEPT !.pc = "done", !.out = (fn.args.chk = 1)]
  /\ UNCHANGED <<gen, rec, val, cr>>

NextChecksum ==
  \/ RsCreateCall
  \/ RsPolymodStep
  \/ RsCreateReturn
  \/ RsVerifyCall
  \/ RsVerifyReturn

SpecChecksum == Init /\ [][NextChecksum]_vars

(***************************************************************************)
(* C22                                                                     *)
(***************************************************************************)
\* C22: for every sequence data of words in 0..1023 and flag f,
\* rs1024CreateChecksum(data, f) returns 3 words, each in 0..1023, and
\* rs1024VerifyChecksum(data followed by these words, f) is true: the polymod
\* of the customization bytes, data and checksum is 1; the running polymod
\* value is in [0, 2^30) after every input element.
C22_ChecksumRoundTrip ==
  /\ (fn.pc = "created" /\ fn.op = "rs1024CreateChecksum") =>
       /\ Len(fn.out) = 3
       /\ \A i \in 1..3 : fn.out[i] \in 0..1023
       /\ fn.out = rs1024CreateChecksum(fn.args.data, fn.args.flag)
  /\ (fn.pc = "done" /\ fn.op = "rs1024VerifyChecksum") =>
       /\ fn.out = TRUE
       /\ fn.args.chk = 1
       /\ rs1024VerifyChecksum(fn.args.data, fn.args.flag)
  /\ fn.pc = "polymod" => fn.args.chk \in 0..(Pow2(30) - 1)

\* the checksum of 17 words, all 1023, under "shamir_extendable" verifies
C22_Witness ==
  /\ fn.pc = "done"
  /\ fn.op = "rs1024VerifyChecksum"
  /\ Len(fn.args.data) = 20
  /\ \A i \in 1..17 : fn.args.data[i] = 1023
  /\ fn.args.flag = 1
  /\ fn.out = TRUE

(***************************************************************************)
(* C23                                                                     *)
(***************************************************************************)
\* C23: for every set of points with distinct abscissas in 0..255 and every
\* x in 0..255 not among them, the logarithm of each Lagrange basis value,
\* after the correction of the negative remainder, is in 0..254, and every
\* index read in EXP_TABLE is in 0..254.
C23_ExponentInRange ==
  (/\ fn.pc = "done"
   /\ fn.op = "interpolate"
   /\ EqualLengths(fn.args.shares)
   /\ ~MapHas(fn.args.shares, fn.args.x)) =>
    /\ fn.out.ok
    /\ Len(fn.args.logs) = Len(fn.args.shares)
    /\ \A i \in 1..Len(fn.args.logs) : fn.args.logs[i] \in 0..254
    /\ \A r \in fn.args.reads : r \in 0..254

\* a remainder that was negative: the sum of the logarithms of the
\* differences between the keys exceeds that of the differences from x
C23_Witness ==
  /\ fn.pc = "done"
  /\ fn.op = "interpolate"
  /\ fn.out.ok
  /\ ~MapHas(fn.args.shares, fn.args.x)
  /\ Len(fn.args.shares) = 3
  /\ \E i \in 1..3 :
       /\ fn.args.logs[i] = 254
       /\ SumSeq([j \in 1..3 |-> LOG_TABLE[BitXor(fn.args.shares[j][1], fn.args.x) + 1]])
            - LOG_TABLE[BitXor(fn.args.shares[i][1], fn.args.x) + 1]
            - SumSeq([j \in 1..3 |->
                        LOG_TABLE[BitXor(fn.args.shares[i][1], fn.args.shares[j][1]) + 1]])
            < 0

(***************************************************************************)
(* C24                                                                     *)
(***************************************************************************)
\* the mnemonics recover has processed so far, decoded one by one
Processed == [k \in 1..rec.di |-> decodeMnemonic(rec.mnemonics[k]).val]

\* the last of the processed mnemonics with group index g and member index m
LastAt(said, g, m) ==
  said[CHOOSE k \in 1..Len(said) :
         /\ said[k].groupIndex = g /\ said[k].memberIndex = m
         /\ \A j \in (k + 1)..Len(said) :
              ~(said[j].groupIndex = g /\ said[j].memberIndex = m)]

\* The map of recover holds, for each (group index, member index) among the
\* processed mnemonics and for nothing else, the share of the last of them.
KeyedByPlace(groups, said) ==
  /\ \A k \in 1..Len(said) :
       /\ MapHas(groups, said[k].groupIndex)
       /\ LET member == MapGet(groups, said[k].groupIndex)[1][2]
          IN  /\ MapHas(member, said[k].memberIndex)
              /\ MapGet(member, said[k].memberIndex)
                   = LastAt(said, said[k].groupIndex, said[k].memberIndex).share
  /\ \A i \in 1..Len(groups) :
       \A j \in 1..Len(groups[i][2][1][2]) :
         \E k \in 1..Len(said) :
           /\ said[k].groupIndex = groups[i][1]
           /\ said[k].memberIndex = groups[i][2][1][2][j][1]
  /\ Injective(MapKeys(groups))
  /\ \A i \in 1..Len(groups) : Injective(MapKeys(groups[i][2][1][2]))

\* the errors of the loop of decodeMnemonics
LoopErrors ==
  { "Invalid mnemonic word",
    "Invalid mnemonic length. The length of each mnemonic must be at least MNEMONICS_WORDS_LENGTH words.",
    "Invalid mnemonic length.",
    "Invalid mnemonic checksum",
    "Invalid mnemonic: Group threshold cannot be greater than group count.",
    "Invalid mnemonic padding",
    "Invalid set of mnemonics. All mnemonics in a group must have the same member threshold." }

\* C24: recover stores the input mnemonics by (group index, member index): a
\* mnemonic given several times is one share, and of two mnemonics with the
\* same group index, member index and member threshold and different share
\* values the later one replaces the earlier one, with no error raised; after
\* every processed mnemonic each group entry holds one member-threshold key.
C24_KeyedByPlace ==
  /\ \A i \in 1..Len(rec.acc.groups) : Len(rec.acc.groups[i][2]) = 1
  /\ (rec.pc = "decode" /\ rec.di = Len(rec.mnemonics) /\ rec.di > 0) =>
       KeyedByPlace(rec.acc.groups, Processed)
  /\ rec.error \notin LoopErrors

\* two mnemonics of one place with different shares, the later one kept
C24_Witness ==
  /\ rec.pc = "decode"
  /\ rec.di = 2
  /\ Len(rec.mnemonics) = 2
  /\ \E a \in {decodeMnemonic(rec.mnemonics[1]).val},
        b \in {decodeMnemonic(rec.mnemonics[2]).val} :
       /\ a.groupIndex = b.groupIndex
       /\ a.memberIndex = b.memberIndex
       /\ a.memberThreshold = b.memberThreshold
       /\ a.share # b.share
       /\ rec.acc.groups = << <<b.groupIndex, << <<b.memberThreshold, << <<b.memberIndex, b.share>> >> >> >> >> >>

\* the same mnemonic three times is one share
C24_WitnessRepeated ==
  /\ rec.pc = "decode"
  /\ rec.di = 3
  /\ rec.mnemonics[1] = rec.mnemonics[2]
  /\ rec.mnemonics[2] = rec.mnemonics[3]
  /\ Len(rec.acc.groups) = 1
  /\ Len(rec.acc.groups[1][2][1][2]) = 1

(***************************************************************************)
(* Two or three calls in flight together.  A call of an async function     *)
(* runs to its first await, the next call starts, and from then on the     *)
(* event loop resumes one suspended call at a time.  The source has no     *)
(* module-level variable that is assigned after loading: the state of a    *)
(* call is in its locals and in the Slip39 object it creates.              *)
(***************************************************************************)
\* One step of Slip39.fromArray on the frame g, from one suspension point to
\* the next.
genStep(g) ==
  LET a == g.args
  IN  CASE g.pc = "validate" ->
             LET r == fromArrayChecks(a.masterSecret, a.passphrase, a.groups,
                                      a.groupThreshold, a.identifier)
             IN  IF r.ok THEN [g EXCEPT !.pc = "crypt"] ELSE Throw(g, r.err)
        [] g.pc = "crypt" ->
             LET r == cryptBegin(a.masterSecret, a.passphrase, a.iterationExponent,
                                 a.identifier, a.extendableBackupFlag, TRUE)
             IN  IF r.ok THEN [g EXCEPT !.pc = "round", !.c = r.val]
                 ELSE Throw(g, r.err)
        [] g.pc = "round" /\ g.c.range # <<>> ->
             LET r == cryptRound(g.c)
             IN  IF r.ok THEN [g EXCEPT !.c = r.val, !.rounds = @ + 1]
                 ELSE Throw([g EXCEPT !.rounds = @ + 1], r.err)
        [] g.pc = "round" /\ g.c.range = <<>> ->
             LET encryptedMasterSecret == cryptEnd(g.c)
                 r == splitSecret(a.groupThreshold, Len(a.groups),
                                  encryptedMasterSecret, a.seed, g.pos)
             IN  IF r.ok
                 THEN [g EXCEPT !.pc = "group", !.secretShares = r.val,
                                !.splits = @ + 1,
                                !.pos = @ + splitRandomUsed(a.groupThreshold,
                                          Len(a.groups), encryptedMasterSecret)]
                 ELSE Throw([g EXCEPT !.splits = @ + 1], r.err)
        [] g.pc = "group" /\ g.idx < Len(a.groups) ->
             LET r == buildChild(slipOf(a), NoTree, a.groups, g.secretShares,
                                 g.idx, g.pos)
                 split == IF a.groups[g.idx + 1][2] > 0 THEN 1 ELSE 0
             IN  IF r.ok
                 THEN [g EXCEPT !.children = Append(@, r.val.node),
                                !.idx = @ + 1, !.pos = r.val.pos,
                                !.splits = @ + split]
                 ELSE Throw([g EXCEPT !.splits = @ + split], r.err)
        [] g.pc = "group" /\ g.idx = Len(a.groups) ->
             [g EXCEPT !.pc = "done", !.status = "ok",
                       !.root = [NoTree EXCEPT !.children = g.children]]
        [] OTHER -> g

\* One step of combineMnemonics on the frame r.
recStep(r) ==
  CASE r.pc = "decode" /\ Len(r.mnemonics) = 0 ->
         Throw(r, "The list of mnemonics is empty.")
    [] r.pc = "decode" /\ r.di < Len(r.mnemonics) ->
         LET d == decodeInto(r.acc, r.mnemonics[r.di + 1])
         IN  IF d.ok THEN [r EXCEPT !.acc = d.val, !.di = @ + 1]
             ELSE Throw(r, d.err)
    [] r.pc = "decode" /\ Len(r.mnemonics) # 0 /\ r.di = Len(r.mnemonics) ->
         LET d == combineBegin(decodeMnemonics(r.acc))
         IN  IF d.ok THEN [r EXCEPT !.pc = "group", !.decoded = d.val]
             ELSE Throw(r, d.err)
    [] r.pc = "group" /\ r.gi < Len(r.decoded.groups) ->
         LET d == combineGroup(r.decoded.groups[r.gi + 1][2])
         IN  IF d.ok
             THEN [r EXCEPT !.allShares =
                              MapSet(@, r.decoded.groups[r.gi + 1][1], d.val),
                            !.gi = @ + 1]
             ELSE Throw(r, d.err)
    [] r.pc = "group" /\ r.gi = Len(r.decoded.groups) ->
         LET ems == recoverSecret(r.decoded.groupThreshold, r.allShares)
         IN  IF ~ems.ok THEN Throw(r, ems.err)
             ELSE LET d == cryptBegin(ems.val, r.passphrase,
                                      r.decoded.iterationExponent,
                                      combineIdentifier(r.decoded.identifier),
                                      r.decoded.extendableBackupFlag, FALSE)
                  IN  IF d.ok THEN [r EXCEPT !.pc = "round", !.c = d.val]
                      ELSE Throw(r, d.err)
    [] r.pc = "round" /\ r.c.range # <<>> ->
         LET d == cryptRound(r.c)
         IN  IF d.ok THEN [r EXCEPT !.c = d.val, !.rounds = @ + 1]
             ELSE Throw(r, d.err)
    [] r.pc = "round" /\ r.c.range = <<>> ->
         [r EXCEPT !.pc = "done", !.status = "ok", !.secret = cryptEnd(r.c)]
    [] OTHER -> r

genFrame(a) == [GenIdle EXCEPT !.pc = "validate", !.args = a]

recFrame(list, passphrase) ==
  [RecIdle EXCEPT !.pc = "decode", !.mnemonics = list, !.passphrase = passphrase]

\* The call run alone: no other call is resumed between its steps.
RECURSIVE genAlone(_)
genAlone(g) ==
  IF g.pc = "done" THEN g
  ELSE CHOOSE out \in {genAlone(next) : next \in {genStep(g)}} : TRUE

RECURSIVE recAlone(_)
recAlone(r) ==
  IF r.pc = "done" THEN r
  ELSE CHOOSE out \in {recAlone(next) : next \in {recStep(r)}} : TRUE

\* Slip39.fromArray(masterSecret, {...}) awaited by itself
fromArray(a) == genAlone(genFrame(a))

\* combineMnemonics(mnemonics, passphrase) awaited by itself
combineMnemonics(list, passphrase) == recAlone(recFrame(list, passphrase))

\* generate: two of three members, one group of one member, and a call whose
\* second group cannot be split.
ConcurrentCalls ==
  { Call(S16, <<>>, Policy(1, <<<<2, 3>>>>), 0, 1, <<18, 52>>, 1),
    Call(S16, <<84, 82>>, Policy(1, <<<<1, 1>>>>), 0, 0, <<18, 52>>, 2),
    Call(S16, <<>>, Policy(2, <<<<1, 1>>, <<3, 2>>>>), 0, 1, <<18, 52>>, 1) }

\* A share set is made first, by a call of generate that runs by itself.
EarlierStart ==
  GenStartWith({Call(S16, <<>>, Policy(1, <<<<2, 3>>>>), 0, 1, <<18, 52>>, 2)})

\* recover on the earlier share set: enough shares, too few, a share of
\* another value, no share
ConcurrentLists(leaves) ==
  { <<leaves[1], leaves[3]>>,
    <<leaves[2]>>,
    <<leaves[1], Reshared(leaves[2])>>,
    <<>> }

\* the frame of one more call, of generate or of recover
SecondFrames(leaves) ==
  { [pc |-> "run", op |-> "fromArray", args |-> a, out |-> genFrame(a)] :
      a \in {Call(S16, <<>>, Policy(1, <<<<2, 3>>>>), 0, 1, <<18, 52>>, 1)} }
  \cup
  { [pc |-> "run", op |-> "combineMnemonics",
     args |-> [mnemonics |-> list, passphrase |-> <<>>],
     out |-> recFrame(list, <<>>)] :
      list \in {<<leaves[3], leaves[2]>>} }

\* Two or three calls are made one after the other, none of them awaited yet.
ConcurrentStart ==
  /\ gen.pc = "done"
  /\ gen.status = "ok"
  /\ rec.pc = "idle"
  /\ fn.pc = "idle"
  /\ \E leaves \in {Leaves}, g \in BOOLEAN, r \in BOOLEAN, f \in BOOLEAN :
       /\ (g /\ r) \/ (g /\ f) \/ (r /\ f)
       /\ IF g THEN \E a \in ConcurrentCalls : gen' = genFrame(a) ELSE gen' = gen
       /\ IF r THEN \E list \in ConcurrentLists(leaves) : rec' = recFrame(list, <<>>)
          ELSE rec' = rec
       /\ IF f THEN fn' \in SecondFrames(leaves) ELSE fn' = fn
  /\ UNCHANGED <<val, cr>>

\* The event loop resumes the third call for one step.
SecondStep ==
  /\ fn.pc = "run"
  /\ fn.out.pc # "done"
  /\ fn' = [fn EXCEPT !.out = IF fn.op = "fromArray" THEN genStep(@) ELSE recStep(@)]
  /\ UNCHANGED <<gen, rec, val, cr>>

\* Its promise settles.
SecondReturn ==
  /\ fn.pc = "run"
  /\ fn.out.pc = "done"
  /\ fn' = [fn EXCEPT !.pc = "done"]
  /\ UNCHANGED <<gen, rec, val, cr>>

NextConcurrent ==
  \/ EarlierStart
  \/ ConcurrentStart
  \/ GenValidate
  \/ GenCryptBegin
  \/ GenRound
  \/ GenSplit
  \/ GenGroup
  \/ GenReturn
  \/ RecEmpty
  \/ RecDecode
  \/ RecCheck
  \/ RecGroup
  \/ RecRoot
  \/ RecRound
  \/ RecReturn
  \/ SecondStep
  \/ SecondReturn

SpecConcurrent == Init /\ [][NextConcurrent]_vars

(***************************************************************************)
(* C25                                                                     *)
(***************************************************************************)
\* the calls are being made: no call is in flight yet
Launching == gen.pc \in {"idle", "done"} /\ rec.pc = "idle" /\ fn.pc = "idle"

\* A step of a call in flight writes the frame of that call and no other.
OneFrameWritten ==
  ~Launching =>
    /\ gen' # gen => (rec' = rec /\ fn' = fn)
    /\ rec' # rec => (gen' = gen /\ fn' = fn)
    /\ fn' # fn => (gen' = gen /\ rec' = rec)

\* A call that settles in this step settles as it does when run alone.
SettlesAsAlone ==
  /\ (gen.pc # "done" /\ gen'.pc = "done") => gen' = fromArray(gen.args)
  /\ (rec.pc # "done" /\ rec'.pc = "done") =>
       rec' = combineMnemonics(rec.mnemonics, rec.passphrase)
  /\ (fn.pc = "run" /\ fn.out.pc # "done" /\ fn'.out.pc = "done") =>
       fn'.out = IF fn.op = "fromArray" THEN fromArray(fn.args)
                 ELSE combineMnemonics(fn.args.mnemonics, fn.args.passphrase)

\* C25: when two or three calls of generate and recover are interleaved at
\* their suspension points, each call returns the result or the error that it
\* returns when run alone on the same inputs and random values, and a step of
\* one call writes no variable of another call.
C25_Isolation == [][OneFrameWritten /\ SettlesAsAlone]_vars

\* recover has returned the secret while a generate and one more call, made
\* with it, are suspended between two rounds of crypt
C25_Witness ==
  /\ rec.pc = "done"
  /\ rec.status = "ok"
  /\ gen.pc = "round"
  /\ gen.rounds \in 1..3
  /\ fn.pc = "run"
  /\ fn.out.pc = "round"
  /\ fn.out.rounds \in 1..3
=============================================================================
